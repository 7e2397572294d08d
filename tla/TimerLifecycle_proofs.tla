----------------------- MODULE TimerLifecycle_proofs -----------------------
(***************************************************************************)
(* What holds of TimerLifecycle for every number of devices, timers,       *)
(* commands in flight, crashes and sync passes.                            *)
(***************************************************************************)
EXTENDS TimerLifecycle, NumberFacts, SequenceTheorems, FiniteSetTheorems, TLAPS

-----------------------------------------------------------------------------
(* The order of the items of a key.                                        *)

\* No path comes before itself.
LEMMA BeforeIrreflexive == ASSUME NEW p \in Seq(Nat) PROVE ~Before(p, p)
BY DEF Before

\* What comes before what comes before.
LEMMA BeforeTransitive ==
  ASSUME NEW p \in Seq(Nat), NEW q \in Seq(Nat), NEW r \in Seq(Nat), Before(p, q), Before(q, r)
  PROVE  Before(p, r)
<1>1. PICK k \in 1..Len(q) : /\ \A j \in 1..(k - 1) : j <= Len(p) /\ p[j] = q[j]
                             /\ k <= Len(p) => p[k] < q[k]
  BY DEF Before
<1>2. PICK l \in 1..Len(r) : /\ \A j \in 1..(l - 1) : j <= Len(q) /\ q[j] = r[j]
                             /\ l <= Len(q) => q[l] < r[l]
  BY DEF Before
<1>3. CASE k < l
  <2>1. k \in 1..Len(r) /\ q[k] = r[k]
    BY <1>1, <1>2, <1>3
  <2>2. \A j \in 1..(k - 1) : j <= Len(p) /\ p[j] = r[j]
    BY <1>1, <1>2, <1>3
  <2> QED BY <1>1, <2>1, <2>2 DEF Before
<1>4. CASE l <= k
  <2>1. \A j \in 1..(l - 1) : j <= Len(p) /\ p[j] = r[j]
    BY <1>1, <1>2, <1>4
  <2>2. ASSUME l <= Len(p) PROVE p[l] < r[l]
    <3>1. p[l] \in Nat /\ q[l] \in Nat /\ r[l] \in Nat /\ l <= Len(q)
      <4>1. l \in 1..Len(p) /\ l \in 1..Len(q) /\ l \in 1..Len(r)
        BY <1>1, <1>2, <1>4, <2>2
      <4>2. \A s \in Seq(Nat) : \A m \in 1..Len(s) : s[m] \in Nat
        OBVIOUS
      <4> QED BY <4>1, <4>2
    <3>2. q[l] < r[l]
      BY <1>2, <3>1
    <3>3. l < k => p[l] = q[l]
      BY <1>1, <1>2
    <3>4. l = k => p[l] < q[l]
      BY <1>1, <2>2
    <3>5. l < k \/ l = k
      BY <1>4
    <3> QED BY <3>1, <3>2, <3>3, <3>4, <3>5
  <2> QED BY <1>2, <2>1, <2>2 DEF Before
<1> QED
  BY <1>3, <1>4

\* Of two different paths one comes before the other.
LEMMA BeforeTotal ==
  ASSUME NEW p \in Seq(Nat), NEW q \in Seq(Nat), p # q
  PROVE  Before(p, q) \/ Before(q, p)
<1> DEFINE Apart(k) == (k > Len(p) /\ k <= Len(q)) \/ (k > Len(q) /\ k <= Len(p))
                       \/ (k <= Len(p) /\ k <= Len(q) /\ p[k] # q[k])
           S == {k \in Nat \ {0} : Apart(k)}
<1>1. S # {}
  <2>1. CASE Len(p) < Len(q)
    BY <2>1
  <2>2. CASE Len(q) < Len(p)
    BY <2>2
  <2>3. CASE Len(p) = Len(q)
    <3>1. PICK k \in 1..Len(p) : p[k] # q[k]
      BY <2>3
    <3>2. k \in Nat \ {0} /\ Apart(k)
      BY <2>3, <3>1
    <3> QED BY <3>2
  <2> QED BY <2>1, <2>2, <2>3
<1>2. Min(S) \in S /\ \A k \in S : Min(S) <= k
  <2> HIDE DEF S
  <2>1. S \in SUBSET Nat
    BY DEF S
  <2> QED BY <1>1, <2>1, NaturalMin
<1>3. PICK k \in S : \A j \in S : k <= j
  BY <1>2
<1>4. \A j \in 1..(k - 1) : j <= Len(p) /\ j <= Len(q) /\ p[j] = q[j]
  <2> TAKE j \in 1..(k - 1)
  <2>1. ~Apart(j)
    BY <1>3
  <2>2. k <= Len(p) \/ k <= Len(q)
    BY <1>3
  <2> QED BY <2>1, <2>2
<1>5. k \in Nat \ {0} /\ Apart(k)
  BY <1>3
<1>6. CASE k > Len(p)
  <2>1. k \in 1..Len(q) /\ (k <= Len(p) => p[k] < q[k])
    BY <1>5, <1>6
  <2> HIDE DEF Apart
  <2> QED BY <1>4, <2>1 DEF Before
<1>7. CASE k > Len(q)
  <2>1. k \in 1..Len(p) /\ (k <= Len(q) => q[k] < p[k])
    BY <1>5, <1>7
  <2>2. \A j \in 1..(k - 1) : j <= Len(q) /\ q[j] = p[j]
    BY <1>4
  <2> QED BY <2>1, <2>2 DEF Before
<1>8. CASE k <= Len(p) /\ k <= Len(q)
  <2>1. p[k] \in Nat /\ q[k] \in Nat /\ p[k] # q[k]
    BY <1>5, <1>8
  <2>2. k \in 1..Len(p) /\ k \in 1..Len(q) /\ (p[k] < q[k] \/ q[k] < p[k])
    BY <1>5, <1>8, <2>1
  <2>3. \A j \in 1..(k - 1) : j <= Len(p) /\ j <= Len(q) /\ p[j] = q[j] /\ q[j] = p[j]
    BY <1>4
  <2> HIDE DEF Apart
  <2> QED
    BY <2>2, <2>3 DEF Before
<1> QED
  BY <1>5, <1>6, <1>7, <1>8

\* A new item comes after the one it is added to.
LEMMA AppendAfter ==
  ASSUME NEW p \in Seq(Nat), NEW c \in Nat
  PROVE  Append(p, c) \in Seq(Nat) /\ Before(p, Append(p, c))
BY DEF Before

-----------------------------------------------------------------------------
(* A key, and what Set, Delete and Merge make of it.                       *)

\* The client that wrote an item.
Writer(it) == it.path[Len(it.path)]

\* A key as documents hold it: items are known by their paths, one is last,
\* and only items that exist are deleted.
Sound(key) ==
  /\ \A it \in key.items : it.path \in Seq(Nat) /\ it.path # <<>>
  /\ \A it, o \in key.items : it.path = o.path => it = o
  /\ key.items # {} =>
       \E it \in key.items : \A o \in key.items : o = it \/ Before(o.path, it.path)
  /\ \A p \in key.dead : \E it \in key.items : it.path = p

\* Two copies of a key do not hold two items of one path.
Agree(a, b) == \A it \in a.items, o \in b.items : it.path = o.path => it = o

\* A copy of a key that knows no more than another.
Within(a, b) == a.items \subseteq b.items /\ a.dead \subseteq b.dead

\* The last item of a key is one of its items, after all the others.
LEMMA LastItem ==
  ASSUME NEW key, Sound(key), key.items # {}
  PROVE  /\ Last(key) \in key.items
         /\ \A o \in key.items : o = Last(key) \/ Before(o.path, Last(key).path)
BY DEF Sound, Last

\* What a session writes is the new last item of the key, which no deletion
\* meets.
LEMMA SetItem ==
  ASSUME NEW Val, NEW key \in Keys(Seq(Nat), Val), Sound(key), NEW c \in Nat, NEW v,
         NEW new, new = Set(key, c, v)
  PROVE  /\ Sound(new) /\ Has(new) /\ Value(new) = v
         /\ LastPath(key) \in Seq(Nat)
         /\ \E w : /\ w = [path |-> Append(LastPath(key), c), val |-> v]
                   /\ Writer(w) = c /\ new.items = key.items \cup {w} /\ new.dead = key.dead
                   /\ \A o \in key.items : Before(o.path, w.path) /\ o.path # w.path
<1> DEFINE w == [path |-> Append(LastPath(key), c), val |-> v]
<1>1. /\ LastPath(key) \in Seq(Nat)
      /\ \A o \in key.items : o.path = LastPath(key) \/ Before(o.path, LastPath(key))
  BY LastItem DEF LastPath, Sound
<1>2. /\ w.path \in Seq(Nat) /\ w.path # <<>> /\ Before(LastPath(key), w.path) /\ w.val = v
      /\ Writer(w) = c
  BY <1>1, AppendAfter DEF Writer
<1>3. new.items = key.items \cup {w} /\ new.dead = key.dead
  BY DEF Set, Keys
<1> HIDE DEF w
<1>4. \A o \in key.items : Before(o.path, w.path) /\ o.path # w.path
  BY <1>1, <1>2, BeforeTransitive, BeforeIrreflexive DEF Sound
<1>5. \A o \in new.items : o = w \/ Before(o.path, w.path)
  BY <1>3, <1>4
<1>6. Sound(new)
  BY <1>2, <1>3, <1>4, <1>5 DEF Sound
<1>7. Last(new) = w
  BY <1>2, <1>3, <1>4, <1>6, LastItem, BeforeIrreflexive, BeforeTransitive DEF Sound
<1>8. w.path \notin key.dead
  BY <1>4 DEF Sound
<1> QED
  BY <1>1, <1>2, <1>3, <1>4, <1>6, <1>7, <1>8 DEF Has, Value, w

\* A deletion meets the last item.
LEMMA DeleteItem ==
  ASSUME NEW Val, NEW key \in Keys(Seq(Nat), Val), Sound(key), NEW new, new = Delete(key)
  PROVE  /\ Sound(new) /\ ~Has(new) /\ new.items = key.items /\ Last(new) = Last(key)
         /\ new.dead = IF Has(key) THEN key.dead \cup {Last(key).path} ELSE key.dead
<1>1. CASE ~Has(key)
  BY <1>1 DEF Delete
<1>2. CASE Has(key)
  <2>1. new.items = key.items /\ new.dead = key.dead \cup {Last(key).path}
    BY <1>2 DEF Delete, Keys, Has, LastPath
  <2>2. Last(key) \in key.items
    BY <1>2, LastItem DEF Has
  <2> QED
    BY <1>2, <2>1, <2>2 DEF Sound, Has, Last
<1> QED
  BY <1>1, <1>2

\* Two copies that agree merge to a key.
LEMMA MergeSound ==
  ASSUME NEW a, NEW b, Sound(a), Sound(b), Agree(a, b)
  PROVE  Sound(Merge(a, b))
<1> DEFINE m == Merge(a, b)
<1>1. m.items = a.items \cup b.items /\ m.dead = a.dead \cup b.dead
  BY DEF Merge
<1> HIDE DEF m
<1>2. \A it, o \in m.items : it.path = o.path => it = o
  BY <1>1 DEF Sound, Agree
<1>3. ASSUME m.items # {}
      PROVE  \E it \in m.items : \A o \in m.items : o = it \/ Before(o.path, it.path)
  <2>1. CASE a.items = {} \/ b.items = {}
    BY <1>1, <1>3, <2>1 DEF Sound
  <2>2. CASE a.items # {} /\ b.items # {}
    <3>1. PICK x \in a.items : \A o \in a.items : o = x \/ Before(o.path, x.path)
      BY <2>2 DEF Sound
    <3>2. PICK y \in b.items : \A o \in b.items : o = y \/ Before(o.path, y.path)
      BY <2>2 DEF Sound
    <3>3. x.path \in Seq(Nat) /\ y.path \in Seq(Nat) /\ \A o \in m.items : o.path \in Seq(Nat)
      BY <1>1 DEF Sound
    <3>4. CASE x.path = y.path
      BY <1>1, <3>1, <3>2, <3>4 DEF Agree
    <3>5. CASE Before(x.path, y.path)
      BY <1>1, <3>1, <3>2, <3>3, <3>5, BeforeTransitive
    <3>6. CASE Before(y.path, x.path)
      BY <1>1, <3>1, <3>2, <3>3, <3>6, BeforeTransitive
    <3> QED
      BY <3>3, <3>4, <3>5, <3>6, BeforeTotal
  <2> QED
    BY <2>1, <2>2
<1>4. \A p \in m.dead : \E it \in m.items : it.path = p
  BY <1>1 DEF Sound
<1> QED
  BY <1>1, <1>2, <1>3, <1>4 DEF Sound, m

-----------------------------------------------------------------------------
(* The copies of the documents, key by key.                                *)

CoreStates ==
  [timer : Keys(Paths, Ids), start : [Ids -> Keys(Paths, Int)],
   paused : [Ids -> Keys(Paths, BOOLEAN)], elapsed : [Ids -> Keys(Paths, Nat)]]
DocStates == [core : CoreStates, entries : [Ids -> Keys(Paths, Int \X Int)]]

\* The places of a workspace that hold a key, the document each is in, and the
\* values it takes.
Fields == {"start", "paused", "elapsed"}
Slots == {<<"timer", 0>>} \cup ((Fields \cup {"entry"}) \X Ids)
DocOf(s) == IF s[1] = "entry" THEN "entries" ELSE "core"
ValuesAt(s) ==
  CASE s[1] = "timer" -> Ids
    [] s[1] = "start" -> Int
    [] s[1] = "paused" -> BOOLEAN
    [] s[1] = "elapsed" -> Nat
    [] s[1] = "entry" -> Int \X Int
KeyAt(x, s) ==
  CASE s[1] = "timer" -> x.core.timer
    [] s[1] = "start" -> x.core.start[s[2]]
    [] s[1] = "paused" -> x.core.paused[s[2]]
    [] s[1] = "elapsed" -> x.core.elapsed[s[2]]
    [] s[1] = "entry" -> x.entries[s[2]]

\* The copies in memory, in the databases and at the provider.
CopiesOf(docs, disks, remote) ==
  {docs[d] : d \in Devices} \cup {disks[d] : d \in Devices} \cup {remote}

\* The keys of all copies are sound and agree; what a session wrote is in its
\* own memory; and a database knows no more than the memory of its device.
KeysFit(docs, disks, remote, session, known) ==
  /\ \A x \in CopiesOf(docs, disks, remote), s \in Slots : Sound(KeyAt(x, s))
  /\ \A x \in CopiesOf(docs, disks, remote), s \in Slots :
       \A it \in KeyAt(x, s).items : Writer(it) \in known[DocOf(s)]
  /\ \A x, y \in CopiesOf(docs, disks, remote), s \in Slots : Agree(KeyAt(x, s), KeyAt(y, s))
  /\ \A x \in CopiesOf(docs, disks, remote), s \in Slots, d \in Devices :
       \A it \in KeyAt(x, s).items :
         Writer(it) = session[d][DocOf(s)] => it \in KeyAt(docs[d], s).items
  /\ \A d \in Devices, s \in Slots : Within(KeyAt(disks[d], s), KeyAt(docs[d], s))

\* The sessions have drawn different ids.
SessionsFit(session, known) ==
  /\ session \in [Devices -> [Docs -> Clients]] /\ known \in [Docs -> SUBSET Clients]
  /\ \A d \in Devices, n \in Docs : session[d][n] \in known[n]
  /\ \A d, e \in Devices, n \in Docs : session[d][n] = session[e][n] => d = e

\* What a session may make of a key.
Wrote(key, new, c) == new = key \/ new = Delete(key) \/ \E v : new = Set(key, c, v)

\* Clients are numbers, and so paths are sequences of numbers.
LEMMA PathsAreNumbers == Paths \subseteq Seq(Nat)
<1>1. Clients \subseteq Nat
  BY DEF Clients
<1> QED
  BY <1>1, SeqMonotonic DEF Paths

\* A slot is one of five kinds.
LEMMA SlotKinds ==
  ASSUME NEW s \in Slots
  PROVE  /\ DocOf(s) \in Docs
         /\ \/ s = <<"timer", 0>>
            \/ s[2] \in Ids /\ s[1] \in {"start", "paused", "elapsed", "entry"}
BY DEF Slots, Fields, DocOf, Docs

\* The keys of a workspace are typed.
LEMMA KeyAtType ==
  ASSUME NEW x \in DocStates, NEW s \in Slots
  PROVE  KeyAt(x, s) \in Keys(Paths, ValuesAt(s)) /\ KeyAt(x, s) \in Keys(Seq(Nat), ValuesAt(s))
<1>1. KeyAt(x, s) \in Keys(Paths, ValuesAt(s))
  <2>1. CASE s = <<"timer", 0>>
    BY <2>1 DEF KeyAt, ValuesAt, DocStates, CoreStates
  <2>2. CASE s[2] \in Ids /\ s[1] \in {"start", "paused"}
    BY <2>2 DEF KeyAt, ValuesAt, DocStates, CoreStates
  <2>3. CASE s[2] \in Ids /\ s[1] \in {"elapsed", "entry"}
    BY <2>3 DEF KeyAt, ValuesAt, DocStates, CoreStates
  <2> QED
    BY <2>1, <2>2, <2>3, SlotKinds
<1>2. Keys(Paths, ValuesAt(s)) \subseteq Keys(Seq(Nat), ValuesAt(s))
  <2>1. Paths \subseteq Seq(Nat)
    BY PathsAreNumbers
  <2> QED BY <2>1 DEF Keys
<1> QED
  BY <1>1, <1>2

\* A session writes to its memory.
LEMMA WriteFits ==
  ASSUME NEW docs \in [Devices -> DocStates], NEW disks, NEW remote, NEW session, NEW known,
         KeysFit(docs, disks, remote, session, known), SessionsFit(session, known),
         NEW d \in Devices, NEW new \in DocStates,
         \A s \in Slots : Wrote(KeyAt(docs[d], s), KeyAt(new, s), session[d][DocOf(s)])
  PROVE  KeysFit([docs EXCEPT ![d] = new], disks, remote, session, known)
<1> DEFINE later == [docs EXCEPT ![d] = new]
           All == CopiesOf(docs, disks, remote)
           More == CopiesOf(later, disks, remote)
           key(s) == KeyAt(docs[d], s)
           key2(s) == KeyAt(new, s)
\* What is new of a key is one item at most, written by this session.
<1>1. ASSUME NEW s \in Slots
      PROVE  /\ Sound(key2(s)) /\ Within(key(s), key2(s))
             /\ \A it \in key2(s).items : it \in key(s).items \/ Writer(it) = session[d][DocOf(s)]
             /\ \A it \in key2(s).items \ key(s).items : \A o \in key(s).items : o.path # it.path
  <2>1. key(s) \in Keys(Seq(Nat), ValuesAt(s)) /\ Sound(key(s))
    BY <1>1, KeyAtType DEF KeysFit, CopiesOf
  <2>2. session[d][DocOf(s)] \in Nat
    BY SlotKinds DEF SessionsFit, Clients
  <2> HIDE DEF key, key2
  <2>3. CASE key2(s) = key(s)
    BY <2>1, <2>3 DEF Within
  <2>4. CASE key2(s) = Delete(key(s))
    BY <2>1, <2>4, DeleteItem DEF Within
  <2>5. ASSUME NEW v, key2(s) = Set(key(s), session[d][DocOf(s)], v)
        PROVE  /\ Sound(key2(s)) /\ Within(key(s), key2(s))
               /\ \A it \in key2(s).items :
                    it \in key(s).items \/ Writer(it) = session[d][DocOf(s)]
               /\ \A it \in key2(s).items \ key(s).items :
                    \A o \in key(s).items : o.path # it.path
    <3>1. Sound(key2(s))
      BY <2>1, <2>2, <2>5, SetItem
    <3>2. PICK w : /\ Writer(w) = session[d][DocOf(s)]
                   /\ key2(s).items = key(s).items \cup {w} /\ key2(s).dead = key(s).dead
                   /\ \A o \in key(s).items : o.path # w.path
      BY <2>1, <2>2, <2>5, SetItem
    <3> QED
      BY <3>1, <3>2 DEF Within
  <2> QED
    BY <2>3, <2>4, <2>5 DEF Wrote, key, key2
<1>2. /\ later[d] = new /\ \A e \in Devices : e # d => later[e] = docs[e]
      /\ \A x \in More : x = new \/ x \in All
      /\ new \in More /\ docs[d] \in All
  BY DEF CopiesOf
<1> HIDE DEF later, All, More, key, key2
<1>3. /\ \A x \in All, s \in Slots : Sound(KeyAt(x, s))
      /\ \A x \in All, s \in Slots : \A it \in KeyAt(x, s).items : Writer(it) \in known[DocOf(s)]
      /\ \A x, y \in All, s \in Slots : Agree(KeyAt(x, s), KeyAt(y, s))
      /\ \A x \in All, s \in Slots, e \in Devices : \A it \in KeyAt(x, s).items :
           Writer(it) = session[e][DocOf(s)] => it \in KeyAt(docs[e], s).items
      /\ \A e \in Devices, s \in Slots : Within(KeyAt(disks[e], s), KeyAt(docs[e], s))
  BY DEF KeysFit, All
<1>4. \A s \in Slots : DocOf(s) \in Docs
  BY SlotKinds
<1>5. ASSUME NEW x \in More, NEW s \in Slots
      PROVE  /\ Sound(KeyAt(x, s))
             /\ \A it \in KeyAt(x, s).items : Writer(it) \in known[DocOf(s)]
  <2>1. CASE x \in All
    BY <1>3, <2>1
  <2>2. CASE x = new
    BY <1>1, <1>2, <1>3, <1>4, <2>2 DEF SessionsFit, key, key2
  <2> QED BY <1>2, <2>1, <2>2
<1>6. ASSUME NEW x \in All, NEW s \in Slots PROVE Agree(KeyAt(x, s), key2(s))
  <2> SUFFICES ASSUME NEW it \in KeyAt(x, s).items, NEW o \in key2(s).items, it.path = o.path
               PROVE  it = o
    BY DEF Agree
  <2>1. CASE o \in key(s).items
    BY <1>2, <1>3, <2>1 DEF Agree, key
  <2>2. CASE o \notin key(s).items
    <3>1. Writer(o) = session[d][DocOf(s)] /\ Writer(it) = Writer(o)
      BY <1>1, <2>2 DEF Writer
    <3>2. it \in key(s).items
      BY <1>3, <3>1 DEF key
    <3> QED BY <1>1, <2>2, <3>2
  <2> QED BY <2>1, <2>2
<1>7. ASSUME NEW x \in More, NEW y \in More, NEW s \in Slots
      PROVE  Agree(KeyAt(x, s), KeyAt(y, s))
  <2>1. Sound(key2(s))
    BY <1>1
  <2>2. Agree(key2(s), key2(s))
    BY <2>1 DEF Sound, Agree
  <2> QED
    BY <1>2, <1>3, <1>6, <2>2 DEF Agree, key2
<1>8. ASSUME NEW x \in More, NEW s \in Slots, NEW e \in Devices, NEW it \in KeyAt(x, s).items,
             Writer(it) = session[e][DocOf(s)]
      PROVE  it \in KeyAt(later[e], s).items
  <2>1. CASE x \in All
    <3>1. it \in KeyAt(docs[e], s).items
      BY <1>3, <1>8, <2>1
    <3> QED BY <1>1, <1>2, <3>1 DEF Within, key, key2
  <2>2. CASE x = new
    <3>1. CASE it \in key(s).items
      <4>1. it \in KeyAt(docs[e], s).items
        BY <1>2, <1>3, <1>8, <3>1 DEF key
      <4> QED BY <1>1, <1>2, <4>1 DEF Within, key, key2
    <3>2. CASE it \notin key(s).items
      <4>1. Writer(it) = session[d][DocOf(s)]
        BY <1>1, <2>2, <3>2 DEF key2
      <4>2. e = d
        BY <1>4, <1>8, <4>1 DEF SessionsFit
      <4> QED BY <1>2, <2>2, <4>2
    <3> QED BY <3>1, <3>2
  <2> QED BY <1>2, <2>1, <2>2
<1>9. ASSUME NEW e \in Devices, NEW s \in Slots
      PROVE  Within(KeyAt(disks[e], s), KeyAt(later[e], s))
  <2>1. CASE e = d
    BY <1>1, <1>2, <1>3, <2>1 DEF Within, key, key2
  <2>2. CASE e # d
    BY <1>2, <1>3, <2>2
  <2> QED BY <2>1, <2>2
<1>10. KeysFit(later, disks, remote, session, known)
  BY <1>5, <1>7, <1>8, <1>9 DEF KeysFit, More
<1> QED
  BY <1>10 DEF later

\* The copies that other copies are made of.
LEMMA CopiedFits ==
  ASSUME NEW docs, NEW disks, NEW remote, NEW session, NEW known,
         KeysFit(docs, disks, remote, session, known),
         NEW later, NEW saved, NEW stored,
         \A x \in CopiesOf(later, saved, stored), s \in Slots :
           \/ \E y \in CopiesOf(docs, disks, remote) : KeyAt(x, s) = KeyAt(y, s)
           \/ \E y, z \in CopiesOf(docs, disks, remote) :
                KeyAt(x, s) = Merge(KeyAt(y, s), KeyAt(z, s))
  PROVE  /\ \A x \in CopiesOf(later, saved, stored), s \in Slots : Sound(KeyAt(x, s))
         /\ \A x \in CopiesOf(later, saved, stored), s \in Slots :
              \A it \in KeyAt(x, s).items :
                \E y \in CopiesOf(docs, disks, remote) : it \in KeyAt(y, s).items
         /\ \A x \in CopiesOf(later, saved, stored), s \in Slots :
              \A it \in KeyAt(x, s).items : Writer(it) \in known[DocOf(s)]
         /\ \A x, y \in CopiesOf(later, saved, stored), s \in Slots : Agree(KeyAt(x, s), KeyAt(y, s))
<1> DEFINE All == CopiesOf(docs, disks, remote)
           More == CopiesOf(later, saved, stored)
<1> HIDE DEF All, More
<1>1. /\ \A x \in All, s \in Slots : Sound(KeyAt(x, s))
      /\ \A x \in All, s \in Slots : \A it \in KeyAt(x, s).items : Writer(it) \in known[DocOf(s)]
      /\ \A x, y \in All, s \in Slots : Agree(KeyAt(x, s), KeyAt(y, s))
  BY DEF KeysFit, All
<1>2. \A x \in More, s \in Slots :
        \/ \E y \in All : KeyAt(x, s) = KeyAt(y, s)
        \/ \E y, z \in All : KeyAt(x, s) = Merge(KeyAt(y, s), KeyAt(z, s))
  BY DEF All, More
<1>3. ASSUME NEW x \in More, NEW s \in Slots PROVE Sound(KeyAt(x, s))
  BY <1>1, <1>2, MergeSound
<1>4. ASSUME NEW x \in More, NEW s \in Slots, NEW it \in KeyAt(x, s).items
      PROVE  \E y \in All : it \in KeyAt(y, s).items
  BY <1>2 DEF Merge
<1>5. \A x, y \in More, s \in Slots : Agree(KeyAt(x, s), KeyAt(y, s))
  BY <1>1, <1>4 DEF Agree
<1> QED
  BY <1>1, <1>3, <1>4, <1>5 DEF All, More

\* A database takes keys from memory.
LEMMA SaveFits ==
  ASSUME NEW docs, NEW disks \in [Devices -> DocStates], NEW remote, NEW session, NEW known,
         KeysFit(docs, disks, remote, session, known),
         NEW d \in Devices, NEW new,
         \A s \in Slots : KeyAt(new, s) \in {KeyAt(disks[d], s), KeyAt(docs[d], s)}
  PROVE  KeysFit(docs, [disks EXCEPT ![d] = new], remote, session, known)
<1> DEFINE saved == [disks EXCEPT ![d] = new]
           All == CopiesOf(docs, disks, remote)
           More == CopiesOf(docs, saved, remote)
<1>1. saved[d] = new /\ \A e \in Devices : e # d => saved[e] = disks[e]
  OBVIOUS
<1>2. /\ \A x \in More : x \in All \/ x = new
      /\ docs[d] \in All /\ disks[d] \in All
  BY DEF CopiesOf
<1> HIDE DEF saved, All, More
<1>3. \A x \in More, s \in Slots :
        \/ \E y \in All : KeyAt(x, s) = KeyAt(y, s)
        \/ \E y, z \in All : KeyAt(x, s) = Merge(KeyAt(y, s), KeyAt(z, s))
  BY <1>2
<1>4. /\ \A x \in More, s \in Slots : Sound(KeyAt(x, s))
      /\ \A x \in More, s \in Slots : \A it \in KeyAt(x, s).items :
           \E y \in All : it \in KeyAt(y, s).items
      /\ \A x \in More, s \in Slots : \A it \in KeyAt(x, s).items : Writer(it) \in known[DocOf(s)]
      /\ \A x, y \in More, s \in Slots : Agree(KeyAt(x, s), KeyAt(y, s))
  BY <1>3, CopiedFits DEF All, More
<1>5. \A x \in More, s \in Slots, e \in Devices : \A it \in KeyAt(x, s).items :
        Writer(it) = session[e][DocOf(s)] => it \in KeyAt(docs[e], s).items
  BY <1>4 DEF KeysFit, All
<1>6. ASSUME NEW e \in Devices, NEW s \in Slots
      PROVE  Within(KeyAt(saved[e], s), KeyAt(docs[e], s))
  BY <1>1 DEF KeysFit, Within
<1>7. KeysFit(docs, saved, remote, session, known)
  BY <1>4, <1>5, <1>6 DEF KeysFit, More
<1> QED
  BY <1>7 DEF saved

\* A device and the provider exchange keys.
LEMMA ExchangeFits ==
  ASSUME NEW docs \in [Devices -> DocStates], NEW disks, NEW remote, NEW session, NEW known,
         KeysFit(docs, disks, remote, session, known),
         NEW d \in Devices, NEW new, NEW stored,
         \A s \in Slots :
           \/ KeyAt(new, s) = KeyAt(docs[d], s) /\ KeyAt(stored, s) = KeyAt(remote, s)
           \/ /\ KeyAt(new, s) = Merge(KeyAt(docs[d], s), KeyAt(remote, s))
              /\ KeyAt(stored, s) = KeyAt(new, s)
  PROVE  KeysFit([docs EXCEPT ![d] = new], disks, stored, session, known)
<1> DEFINE later == [docs EXCEPT ![d] = new]
           All == CopiesOf(docs, disks, remote)
           More == CopiesOf(later, disks, stored)
<1>1. later[d] = new /\ \A e \in Devices : e # d => later[e] = docs[e]
  OBVIOUS
<1>2. /\ \A x \in More : x \in All \/ x = new \/ x = stored
      /\ docs[d] \in All /\ remote \in All
  BY DEF CopiesOf
<1> HIDE DEF later, All, More
<1>3. \A x \in More, s \in Slots :
        \/ \E y \in All : KeyAt(x, s) = KeyAt(y, s)
        \/ \E y, z \in All : KeyAt(x, s) = Merge(KeyAt(y, s), KeyAt(z, s))
  BY <1>2
<1>4. /\ \A x \in More, s \in Slots : Sound(KeyAt(x, s))
      /\ \A x \in More, s \in Slots : \A it \in KeyAt(x, s).items :
           \E y \in All : it \in KeyAt(y, s).items
      /\ \A x \in More, s \in Slots : \A it \in KeyAt(x, s).items : Writer(it) \in known[DocOf(s)]
      /\ \A x, y \in More, s \in Slots : Agree(KeyAt(x, s), KeyAt(y, s))
  BY <1>3, CopiedFits DEF All, More
<1>5. \A e \in Devices, s \in Slots : Within(KeyAt(docs[e], s), KeyAt(later[e], s))
  BY <1>1 DEF Within, Merge
<1>6. \A x \in More, s \in Slots, e \in Devices : \A it \in KeyAt(x, s).items :
        Writer(it) = session[e][DocOf(s)] => it \in KeyAt(later[e], s).items
  BY <1>4, <1>5 DEF KeysFit, All, Within
<1>7. \A e \in Devices, s \in Slots : Within(KeyAt(disks[e], s), KeyAt(later[e], s))
  BY <1>5 DEF KeysFit, Within
<1>8. KeysFit(later, disks, stored, session, known)
  BY <1>4, <1>6, <1>7 DEF KeysFit, More
<1> QED
  BY <1>8 DEF later

\* A tab dies, and the next session starts from the database, under ids that
\* no session had.
LEMMA CrashFits ==
  ASSUME NEW docs \in [Devices -> DocStates], NEW disks \in [Devices -> DocStates], NEW remote,
         NEW session, NEW known,
         KeysFit(docs, disks, remote, session, known), SessionsFit(session, known),
         NEW d \in Devices, NEW next, NEW more,
         \A e \in Devices : e # d => next[e] = session[e],
         \A n \in Docs : next[d][n] \notin known[n] /\ known[n] \subseteq more[n]
  PROVE  KeysFit([docs EXCEPT ![d] = disks[d]], disks, remote, next, more)
<1> DEFINE later == [docs EXCEPT ![d] = disks[d]]
           All == CopiesOf(docs, disks, remote)
           More == CopiesOf(later, disks, remote)
<1>1. later[d] = disks[d] /\ \A e \in Devices : e # d => later[e] = docs[e]
  OBVIOUS
<1>2. \A x \in More : x \in All
  BY DEF CopiesOf
<1> HIDE DEF later, All, More
<1>3. \A s \in Slots : DocOf(s) \in Docs
  BY SlotKinds
<1>4. /\ \A x \in All, s \in Slots : Sound(KeyAt(x, s))
      /\ \A x \in All, s \in Slots : \A it \in KeyAt(x, s).items : Writer(it) \in known[DocOf(s)]
      /\ \A x, y \in All, s \in Slots : Agree(KeyAt(x, s), KeyAt(y, s))
      /\ \A x \in All, s \in Slots, e \in Devices : \A it \in KeyAt(x, s).items :
           Writer(it) = session[e][DocOf(s)] => it \in KeyAt(docs[e], s).items
      /\ \A e \in Devices, s \in Slots : Within(KeyAt(disks[e], s), KeyAt(docs[e], s))
  BY DEF KeysFit, All
<1>5. ASSUME NEW x \in More, NEW s \in Slots, NEW e \in Devices, NEW it \in KeyAt(x, s).items,
             Writer(it) = next[e][DocOf(s)]
      PROVE  it \in KeyAt(later[e], s).items
  BY <1>1, <1>2, <1>3, <1>4, <1>5
<1>6. \A e \in Devices, s \in Slots : Within(KeyAt(disks[e], s), KeyAt(later[e], s))
  BY <1>1, <1>4 DEF Within
<1>7. KeysFit(later, disks, remote, next, more)
  BY <1>2, <1>3, <1>4, <1>5, <1>6 DEF KeysFit, More
<1> QED
  BY <1>7 DEF later

-----------------------------------------------------------------------------
(* The invariant behind the types.                                         *)

\* A timer that was ever in a copy has its fields there, and nothing is there
\* of instances that are not made yet.
Formed(x, made) ==
  /\ \A i \in Ids : i > made =>
       x.core.start[i] = EmptyKey /\ x.core.paused[i] = EmptyKey /\ x.core.elapsed[i] = EmptyKey
  /\ \A it \in x.core.timer.items :
       /\ x.core.start[it.val].items # {} /\ x.core.paused[it.val].items # {}
       /\ x.core.elapsed[it.val].items # {}

DataInv ==
  /\ doc \in [Devices -> DocStates] /\ disk \in [Devices -> DocStates] /\ cloud \in DocStates
  /\ SessionsFit(client, drawn)
  /\ KeysFit(doc, disk, cloud, client, drawn)
  /\ \A x \in CopiesOf(doc, disk, cloud) : Formed(x, born)

RestOK ==
  /\ \A c \in calls : CallOK(c)
  /\ pass \in [Devices -> SUBSET Docs]
  /\ clock \in 0..Horizon /\ born \in 0..MaxIds
  /\ given \in 0..MaxCommands /\ crashes \in 0..MaxCrashes
  /\ waived \in SUBSET Ids
  /\ pausedAt \in [Ids -> SUBSET Int]

TypeInv == DataInv /\ RestOK

\* The timer of a copy, as a device reads it.
TimerOf(core) ==
  LET i == Value(core.timer) IN
    [inst |-> i, start |-> Value(core.start[i]), paused |-> Value(core.paused[i]),
     elapsed |-> Value(core.elapsed[i])]

\* A key that was ever set has a value.
LEMMA ValueType ==
  ASSUME NEW Val, NEW key \in Keys(Paths, Val), Sound(key), key.items # {}
  PROVE  Value(key) \in Val /\ Last(key) \in key.items /\ Last(key).path \in Paths
<1>1. Last(key) \in key.items
  BY LastItem
<1> QED
  BY <1>1 DEF Keys, Value

\* The timer that a copy shows is typed.
LEMMA TimerType ==
  ASSUME NEW x \in DocStates, NEW made, \A s \in Slots : Sound(KeyAt(x, s)), Formed(x, made),
         Has(x.core.timer)
  PROVE  /\ TimerOf(x.core) \in TimerRecords
         /\ LET i == Value(x.core.timer) IN
              /\ i \in Ids /\ x.core.start[i].items # {} /\ x.core.paused[i].items # {}
              /\ x.core.elapsed[i].items # {}
<1> DEFINE i == Value(x.core.timer)
<1>1. x.core.timer \in Keys(Paths, Ids) /\ Sound(x.core.timer) /\ x.core.timer.items # {}
  <2>1. <<"timer", 0>> \in Slots /\ KeyAt(x, <<"timer", 0>>) = x.core.timer
    BY DEF Slots, KeyAt
  <2> QED BY <2>1 DEF DocStates, CoreStates, Has
<1>2. i \in Ids /\ Last(x.core.timer) \in x.core.timer.items
  BY <1>1, ValueType
<1>3. x.core.start[i].items # {} /\ x.core.paused[i].items # {} /\ x.core.elapsed[i].items # {}
  BY <1>2 DEF Formed, Value
<1> HIDE DEF i
<1>4. /\ x.core.start[i] \in Keys(Paths, Int) /\ x.core.paused[i] \in Keys(Paths, BOOLEAN)
      /\ x.core.elapsed[i] \in Keys(Paths, Nat)
  BY <1>2 DEF DocStates, CoreStates
<1>5. Sound(x.core.start[i]) /\ Sound(x.core.paused[i]) /\ Sound(x.core.elapsed[i])
  <2>1. /\ <<"start", i>> \in Slots /\ KeyAt(x, <<"start", i>>) = x.core.start[i]
        /\ <<"paused", i>> \in Slots /\ KeyAt(x, <<"paused", i>>) = x.core.paused[i]
        /\ <<"elapsed", i>> \in Slots /\ KeyAt(x, <<"elapsed", i>>) = x.core.elapsed[i]
    BY <1>2 DEF Slots, KeyAt, Fields
  <2> QED BY <2>1
<1>6. /\ Value(x.core.start[i]) \in Int /\ Value(x.core.paused[i]) \in BOOLEAN
      /\ Value(x.core.elapsed[i]) \in Nat
  BY <1>3, <1>4, <1>5, ValueType
<1> QED
  BY <1>2, <1>3, <1>6 DEF TimerOf, TimerRecords, i

\* So are its entries.
LEMMA EntriesType ==
  ASSUME NEW x \in DocStates, \A s \in Slots : Sound(KeyAt(x, s))
  PROVE  Entries(x.entries) \subseteq Ids \X (Int \X Int)
<1> SUFFICES ASSUME NEW i \in Ids, Has(x.entries[i]) PROVE Value(x.entries[i]) \in Int \X Int
  BY DEF Entries
<1>1. <<"entry", i>> \in Slots /\ KeyAt(x, <<"entry", i>>) = x.entries[i]
  BY DEF Slots, KeyAt
<1>2. Sound(x.entries[i])
  BY <1>1
<1>3. x.entries[i] \in Keys(Paths, Int \X Int) /\ x.entries[i].items # {}
  BY DEF DocStates, Has
<1> QED
  BY <1>2, <1>3, ValueType

\* The keys of a device are sound, and its timer, if it shows one, is typed.
LEMMA DeviceType ==
  ASSUME DataInv, NEW d \in Devices
  PROVE  /\ doc[d] \in DocStates /\ disk[d] \in DocStates
         /\ \A s \in Slots : Sound(KeyAt(doc[d], s)) /\ Sound(KeyAt(disk[d], s))
         /\ Formed(doc[d], born) /\ Formed(disk[d], born)
         /\ Entries(doc[d].entries) \subseteq Ids \X (Int \X Int)
         /\ Running(d) => /\ Timer(d) \in TimerRecords /\ Timer(d) = TimerOf(doc[d].core)
                          /\ Timer(d).inst = Instance(d) /\ Instance(d) = Value(doc[d].core.timer)
                          /\ Instance(d) \in Ids
                          /\ doc[d].core.start[Instance(d)].items # {}
                          /\ doc[d].core.paused[Instance(d)].items # {}
                          /\ doc[d].core.elapsed[Instance(d)].items # {}
<1>1. doc[d] \in CopiesOf(doc, disk, cloud) /\ disk[d] \in CopiesOf(doc, disk, cloud)
  BY DEF CopiesOf
<1>2. /\ doc[d] \in DocStates /\ disk[d] \in DocStates
      /\ \A s \in Slots : Sound(KeyAt(doc[d], s)) /\ Sound(KeyAt(disk[d], s))
      /\ Formed(doc[d], born) /\ Formed(disk[d], born)
  BY <1>1 DEF DataInv, KeysFit
<1>3. Timer(d) = TimerOf(doc[d].core) /\ Timer(d).inst = Instance(d)
      /\ Instance(d) = Value(doc[d].core.timer)
  BY DEF Timer, TimerOf, Instance
<1>4. Entries(doc[d].entries) \subseteq Ids \X (Int \X Int)
  BY <1>2, EntriesType
<1> QED
  BY <1>2, <1>3, <1>4, TimerType DEF Running

\* The invariant says that all is typed.
LEMMA TypeInvTypes == TypeInv => TypeOK
<1> SUFFICES ASSUME TypeInv PROVE TypeOK
  OBVIOUS
<1>1. ASSUME NEW x \in DocStates PROVE DocsOK(x)
  BY DEF DocsOK, DocStates, CoreStates
<1>2. \A d \in Devices : DocsOK(doc[d]) /\ DocsOK(disk[d])
  BY <1>1 DEF TypeInv, DataInv
<1>3. DocsOK(cloud)
  BY <1>1 DEF TypeInv, DataInv
<1>4. \A d \in Devices : Running(d) => Timer(d) \in TimerRecords
  BY DeviceType DEF TypeInv
<1> QED
  BY <1>2, <1>3, <1>4 DEF TypeOK, TypeInv, DataInv, RestOK, SessionsFit

-----------------------------------------------------------------------------
(* What the commands write.                                                *)

\* A write keeps the type of a key.
LEMMA SetType ==
  ASSUME NEW Val, NEW key \in Keys(Paths, Val), Sound(key), NEW c \in Clients, NEW v \in Val
  PROVE  /\ Set(key, c, v) \in Keys(Paths, Val) /\ Set(key, c, v).items # {}
         /\ key.items \subseteq Set(key, c, v).items
         /\ Has(Set(key, c, v)) /\ Value(Set(key, c, v)) = v
<1> DEFINE new == Set(key, c, v)
<1>1. key \in Keys(Seq(Nat), Val) /\ c \in Nat
  BY PathsAreNumbers DEF Keys, Clients
<1>2. /\ Has(new) /\ Value(new) = v
      /\ new.items = key.items \cup {[path |-> Append(LastPath(key), c), val |-> v]}
      /\ new.dead = key.dead
  <2> HIDE DEF new
  <2>1. new = Set(key, c, v)
    BY DEF new
  <2>2. /\ Has(new) /\ Value(new) = v
        /\ \E w : /\ w = [path |-> Append(LastPath(key), c), val |-> v]
                  /\ Writer(w) = c /\ new.items = key.items \cup {w} /\ new.dead = key.dead
                  /\ \A o \in key.items : Before(o.path, w.path) /\ o.path # w.path
    BY <1>1, <2>1, SetItem
  <2> QED BY <2>2
<1>3. LastPath(key) \in Paths
  BY ValueType DEF LastPath, Paths
<1>4. Append(LastPath(key), c) \in Paths
  BY <1>3 DEF Paths
<1>5. new.items \in SUBSET [path : Paths, val : Val] /\ new.dead \in SUBSET Paths
  <2> DEFINE p == Append(LastPath(key), c)
  <2> HIDE DEF p
  <2>1. [path |-> p, val |-> v] \in [path : Paths, val : Val]
    BY <1>4 DEF p
  <2>2. key.items \in SUBSET [path : Paths, val : Val] /\ key.dead \in SUBSET Paths
    BY DEF Keys
  <2>3. new.items = key.items \cup {[path |-> p, val |-> v]} /\ new.dead = key.dead
    BY <1>2 DEF p
  <2> HIDE DEF new
  <2> QED BY <2>1, <2>2, <2>3
<1>6. new = [items |-> new.items, dead |-> new.dead]
  <2> DEFINE more == key.items \cup {[path |-> Append(LastPath(key), c), val |-> v]}
  <2>1. new = [key EXCEPT !.items = more]
    BY DEF Set
  <2> HIDE DEF more, new
  <2> QED BY <2>1 DEF Keys
<1> HIDE DEF new
<1>7. new \in Keys(Paths, Val)
  BY <1>5, <1>6 DEF Keys
<1> QED
  BY <1>2, <1>7 DEF new

\* So does a deletion.
LEMMA DeleteType ==
  ASSUME NEW Val, NEW key \in Keys(Paths, Val), Sound(key)
  PROVE  /\ Delete(key) \in Keys(Paths, Val) /\ ~Has(Delete(key))
         /\ Delete(key).items = key.items
         /\ Delete(key).dead = IF Has(key) THEN key.dead \cup {Last(key).path} ELSE key.dead
<1>1. key \in Keys(Seq(Nat), Val)
  BY PathsAreNumbers DEF Keys
<1>2. CASE Has(key)
  <2>1. Last(key).path \in Paths /\ LastPath(key) = Last(key).path
    BY <1>2, ValueType DEF Has, LastPath
  <2> QED
    BY <1>1, <1>2, <2>1, DeleteItem DEF Delete, Keys
<1>3. CASE ~Has(key)
  BY <1>3 DEF Delete
<1> QED
  BY <1>2, <1>3

\* A device writes to its memory.
LEMMA WriteStep ==
  ASSUME DataInv, NEW d \in Devices, NEW new \in DocStates, doc' = [doc EXCEPT ![d] = new],
         \A s \in Slots : Wrote(KeyAt(doc[d], s), KeyAt(new, s), client[d][DocOf(s)]),
         born \in Nat, born' \in Nat, born <= born', Formed(new, born'),
         UNCHANGED <<disk, cloud, client, drawn>>
  PROVE  DataInv'
<1>1. doc' \in [Devices -> DocStates]
  BY DEF DataInv
<1>2. KeysFit(doc', disk', cloud', client', drawn')
  BY WriteFits DEF DataInv
<1>3. ASSUME NEW x \in CopiesOf(doc', disk', cloud') PROVE Formed(x, born')
  <2>1. x = new \/ x \in CopiesOf(doc, disk, cloud)
    BY DEF CopiesOf, DataInv
  <2>2. ASSUME Formed(x, born) PROVE Formed(x, born')
    BY <2>2 DEF Formed, Ids
  <2> QED
    BY <2>1, <2>2 DEF DataInv
<1> QED
  BY <1>1, <1>2, <1>3 DEF DataInv

\* A command writes to the core document.
LEMMA CoreStep ==
  ASSUME DataInv, NEW d \in Devices, NEW core \in CoreStates, CoreOf(d, core),
         Wrote(doc[d].core.timer, core.timer, client[d].core),
         \A i \in Ids : /\ Wrote(doc[d].core.start[i], core.start[i], client[d].core)
                        /\ Wrote(doc[d].core.paused[i], core.paused[i], client[d].core)
                        /\ Wrote(doc[d].core.elapsed[i], core.elapsed[i], client[d].core),
         born \in Nat, born' \in Nat, born <= born',
         Formed([doc[d] EXCEPT !.core = core], born'),
         UNCHANGED <<disk, cloud, client, drawn>>
  PROVE  /\ DataInv' /\ doc'[d] = [doc[d] EXCEPT !.core = core]
         /\ doc'[d].core = core /\ doc'[d].entries = doc[d].entries
         /\ \A e \in Devices : e # d => doc'[e] = doc[e]
<1> DEFINE new == [doc[d] EXCEPT !.core = core]
<1>1. new \in DocStates /\ new.core = core /\ new.entries = doc[d].entries
  BY DEF DataInv, DocStates
<1>2. doc' = [doc EXCEPT ![d] = new]
  BY DEF CoreOf
<1> HIDE DEF new
<1>3. ASSUME NEW s \in Slots
      PROVE  Wrote(KeyAt(doc[d], s), KeyAt(new, s), client[d][DocOf(s)])
  <2>1. CASE s = <<"timer", 0>>
    BY <1>1, <2>1 DEF KeyAt, DocOf
  <2>2. CASE s[2] \in Ids /\ s[1] \in {"start", "paused", "elapsed"}
    BY <1>1, <2>2 DEF KeyAt, DocOf
  <2>3. CASE s[2] \in Ids /\ s[1] = "entry"
    BY <1>1, <2>3 DEF KeyAt, Wrote
  <2> QED
    BY <2>1, <2>2, <2>3, SlotKinds
<1>4. DataInv'
  BY <1>1, <1>2, <1>3, WriteStep DEF new
<1>5. doc'[d] = new /\ \A e \in Devices : e # d => doc'[e] = doc[e]
  BY <1>2 DEF DataInv
<1> QED
  BY <1>1, <1>4, <1>5 DEF new

\* A field that is given has one value; a field that is not given is kept.
Given(vals, Val) == vals = {} \/ \E v \in Val : vals = {v}
Refilled(t, u, start, paused, elapsed) ==
  /\ u.inst = t.inst
  /\ IF start = {} THEN u.start = t.start ELSE u.start \in start
  /\ IF paused = {} THEN u.paused = t.paused ELSE u.paused \in paused
  /\ IF elapsed = {} THEN u.elapsed = t.elapsed ELSE u.elapsed \in elapsed

\* A command writes to the memory of its own device.
LEMMA OthersStay ==
  ASSUME doc \in [Devices -> DocStates], NEW d \in Devices, NEW e \in Devices, e # d,
         NEW i, NEW start, NEW paused, NEW elapsed, WriteFields(d, i, start, paused, elapsed)
  PROVE  doc'[e] = doc[e]
<1> DEFINE c == doc[d].core
           put(key, vals) == IF vals = {} THEN key
                             ELSE Set(key, client[d].core, CHOOSE v \in vals : TRUE)
           core == [c EXCEPT !.start[i] = put(@, start), !.paused[i] = put(@, paused),
                             !.elapsed[i] = put(@, elapsed)]
<1>1. CoreOf(d, core)
  BY DEF WriteFields
<1> HIDE DEF core
<1> QED
  BY <1>1 DEF CoreOf

\* A command writes fields of the timer it found.
LEMMA FieldsStep ==
  ASSUME DataInv, born \in Nat, born' = born, NEW d \in Devices, Running(d),
         NEW start, NEW paused, NEW elapsed,
         Given(start, Int), Given(paused, BOOLEAN), Given(elapsed, Nat),
         WriteFields(d, Timer(d).inst, start, paused, elapsed),
         UNCHANGED <<disk, cloud, client, drawn>>
  PROVE  /\ DataInv' /\ Running(d)'
         /\ Timer(d)' \in TimerRecords /\ Refilled(Timer(d), Timer(d)', start, paused, elapsed)
         /\ doc'[d].core.timer = doc[d].core.timer /\ doc'[d].entries = doc[d].entries
         /\ \A e \in Devices : e # d => doc'[e] = doc[e]
<1> DEFINE i == Timer(d).inst
           c == doc[d].core
           me == client[d].core
           put(key, vals) == IF vals = {} THEN key ELSE Set(key, me, CHOOSE v \in vals : TRUE)
           core == [c EXCEPT !.start[i] = put(c.start[i], start),
                             !.paused[i] = put(c.paused[i], paused),
                             !.elapsed[i] = put(c.elapsed[i], elapsed)]
<1>1. /\ c \in CoreStates /\ i \in Ids /\ Timer(d) \in TimerRecords /\ i = Value(c.timer)
      /\ c.start[i].items # {} /\ c.paused[i].items # {} /\ c.elapsed[i].items # {}
      /\ Formed(doc[d], born)
  BY DeviceType DEF DocStates
<1>2. /\ Sound(c.start[i]) /\ Sound(c.paused[i]) /\ Sound(c.elapsed[i])
      /\ c.start[i] \in Keys(Paths, Int) /\ c.paused[i] \in Keys(Paths, BOOLEAN)
      /\ c.elapsed[i] \in Keys(Paths, Nat)
  <2> HIDE DEF i
  <2>1. /\ <<"start", i>> \in Slots /\ KeyAt(doc[d], <<"start", i>>) = c.start[i]
        /\ <<"paused", i>> \in Slots /\ KeyAt(doc[d], <<"paused", i>>) = c.paused[i]
        /\ <<"elapsed", i>> \in Slots /\ KeyAt(doc[d], <<"elapsed", i>>) = c.elapsed[i]
    BY <1>1 DEF Slots, KeyAt, Fields
  <2> QED BY <1>1, <2>1, DeviceType DEF CoreStates
<1>3. me \in Clients
  <2>1. client[d] \in [Docs -> Clients] /\ "core" \in Docs
    BY DEF DataInv, SessionsFit, Docs
  <2> QED BY <2>1
\* What a write makes of one field.
<1>4. ASSUME NEW Val, NEW key \in Keys(Paths, Val), Sound(key), key.items # {}, NEW vals,
             Given(vals, Val)
      PROVE  /\ put(key, vals) \in Keys(Paths, Val) /\ put(key, vals).items # {}
             /\ Wrote(key, put(key, vals), me)
             /\ vals = {} => Value(put(key, vals)) = Value(key)
             /\ vals # {} => Value(put(key, vals)) \in vals
  <2>1. CASE vals = {}
    BY <1>4, <2>1 DEF Wrote
  <2>2. CASE \E v \in Val : vals = {v}
    <3>1. PICK v \in Val : vals = {v}
      BY <2>2
    <3>2. put(key, vals) = Set(key, me, v) /\ (CHOOSE u \in vals : TRUE) = v /\ vals # {}
      BY <3>1
    <3> HIDE DEF put, me
    <3>3. Value(put(key, vals)) = v
      BY <1>3, <1>4, <3>2, SetType
    <3>4. put(key, vals) \in Keys(Paths, Val) /\ put(key, vals).items # {}
      BY <1>3, <1>4, <3>2, SetType
    <3>5. Wrote(key, put(key, vals), me)
      BY <3>2 DEF Wrote
    <3> QED BY <3>2, <3>3, <3>4, <3>5
  <2> QED BY <1>4, <2>1, <2>2 DEF Given
<1>5. CoreOf(d, core)
  BY DEF WriteFields
<1> HIDE DEF put, me, core
<1>6. /\ put(c.start[i], start) \in Keys(Paths, Int)
      /\ put(c.paused[i], paused) \in Keys(Paths, BOOLEAN)
      /\ put(c.elapsed[i], elapsed) \in Keys(Paths, Nat)
      /\ put(c.start[i], start).items # {} /\ put(c.paused[i], paused).items # {}
      /\ put(c.elapsed[i], elapsed).items # {}
      /\ Wrote(c.start[i], put(c.start[i], start), me)
      /\ Wrote(c.paused[i], put(c.paused[i], paused), me)
      /\ Wrote(c.elapsed[i], put(c.elapsed[i], elapsed), me)
  <2> HIDE DEF c, i
  <2>1. /\ put(c.start[i], start) \in Keys(Paths, Int)
        /\ put(c.start[i], start).items # {}
        /\ Wrote(c.start[i], put(c.start[i], start), me)
    BY <1>1, <1>2, <1>4
  <2>2. /\ put(c.paused[i], paused) \in Keys(Paths, BOOLEAN)
        /\ put(c.paused[i], paused).items # {}
        /\ Wrote(c.paused[i], put(c.paused[i], paused), me)
    BY <1>1, <1>2, <1>4
  <2>3. /\ put(c.elapsed[i], elapsed) \in Keys(Paths, Nat)
        /\ put(c.elapsed[i], elapsed).items # {}
        /\ Wrote(c.elapsed[i], put(c.elapsed[i], elapsed), me)
    BY <1>1, <1>2, <1>4
  <2> QED BY <2>1, <2>2, <2>3
<1>7. /\ start = {} => Value(put(c.start[i], start)) = Value(c.start[i])
      /\ start # {} => Value(put(c.start[i], start)) \in start
      /\ paused = {} => Value(put(c.paused[i], paused)) = Value(c.paused[i])
      /\ paused # {} => Value(put(c.paused[i], paused)) \in paused
      /\ elapsed = {} => Value(put(c.elapsed[i], elapsed)) = Value(c.elapsed[i])
      /\ elapsed # {} => Value(put(c.elapsed[i], elapsed)) \in elapsed
  <2> HIDE DEF c, i
  <2>4. start = {} => Value(put(c.start[i], start)) = Value(c.start[i])
    BY <1>1, <1>2, <1>4
  <2>5. start # {} => Value(put(c.start[i], start)) \in start
    BY <1>1, <1>2, <1>4
  <2>6. paused = {} => Value(put(c.paused[i], paused)) = Value(c.paused[i])
    BY <1>1, <1>2, <1>4
  <2>7. paused # {} => Value(put(c.paused[i], paused)) \in paused
    BY <1>1, <1>2, <1>4
  <2>8. elapsed = {} => Value(put(c.elapsed[i], elapsed)) = Value(c.elapsed[i])
    BY <1>1, <1>2, <1>4
  <2>9. elapsed # {} => Value(put(c.elapsed[i], elapsed)) \in elapsed
    BY <1>1, <1>2, <1>4
  <2> QED BY <2>4, <2>5, <2>6, <2>7, <2>8, <2>9
<1> HIDE DEF i, c
<1> DEFINE to == put(c.start[i], start)
           held == put(c.paused[i], paused)
           spent == put(c.elapsed[i], elapsed)
<1>8a. core = [c EXCEPT !.start[i] = to, !.paused[i] = held, !.elapsed[i] = spent]
  BY DEF core
<1> HIDE DEF core, to, held, spent
<1>8b. /\ to \in Keys(Paths, Int) /\ held \in Keys(Paths, BOOLEAN) /\ spent \in Keys(Paths, Nat)
       /\ c \in CoreStates /\ i \in Ids
  BY <1>1, <1>6 DEF to, held, spent
<1> DEFINE starts == [c.start EXCEPT ![i] = to]
           pauses == [c.paused EXCEPT ![i] = held]
           spends == [c.elapsed EXCEPT ![i] = spent]
<1>8c. /\ starts \in [Ids -> Keys(Paths, Int)] /\ pauses \in [Ids -> Keys(Paths, BOOLEAN)]
       /\ spends \in [Ids -> Keys(Paths, Nat)]
  BY <1>8b DEF CoreStates
<1>8d. /\ starts[i] = to /\ pauses[i] = held /\ spends[i] = spent
       /\ \A j \in Ids : j # i => /\ starts[j] = c.start[j] /\ pauses[j] = c.paused[j]
                                  /\ spends[j] = c.elapsed[j]
  BY <1>8b DEF CoreStates
<1>8e. /\ core.timer = c.timer /\ core.start = starts /\ core.paused = pauses
       /\ core.elapsed = spends
  BY <1>8a, <1>8b DEF CoreStates
<1>8f. core = [timer |-> core.timer, start |-> core.start, paused |-> core.paused,
               elapsed |-> core.elapsed]
  BY <1>8a, <1>8b DEF CoreStates
<1> HIDE DEF starts, pauses, spends
<1>8. /\ core.timer = c.timer
      /\ core.start[i] = put(c.start[i], start) /\ core.paused[i] = put(c.paused[i], paused)
      /\ core.elapsed[i] = put(c.elapsed[i], elapsed)
      /\ \A j \in Ids : j # i => /\ core.start[j] = c.start[j] /\ core.paused[j] = c.paused[j]
                                 /\ core.elapsed[j] = c.elapsed[j]
  BY <1>8d, <1>8e DEF to, held, spent
<1>9. core \in CoreStates
  BY <1>8b, <1>8c, <1>8e, <1>8f DEF CoreStates
<1>10. ASSUME NEW j \in Ids
       PROVE  /\ Wrote(c.start[j], core.start[j], me) /\ Wrote(c.paused[j], core.paused[j], me)
              /\ Wrote(c.elapsed[j], core.elapsed[j], me)
  BY <1>6, <1>8 DEF Wrote
<1>11. Formed([doc[d] EXCEPT !.core = core], born)
  <2>1. doc[d].core = c /\ [doc[d] EXCEPT !.core = core].core = core
    BY DEF DataInv, DocStates, c
  <2>2. ~(i > born)
    BY <1>1, <2>1 DEF Formed, EmptyKey
  <2> DEFINE new == [doc[d] EXCEPT !.core = core]
  <2>3. new.core = core
    BY <2>1
  <2> HIDE DEF new
  <2>4. ASSUME NEW j \in Ids, j > born
        PROVE  /\ new.core.start[j] = EmptyKey /\ new.core.paused[j] = EmptyKey
               /\ new.core.elapsed[j] = EmptyKey
    BY <1>1, <1>8, <2>1, <2>2, <2>3, <2>4 DEF Formed
  <2>5. ASSUME NEW it \in new.core.timer.items
        PROVE  /\ new.core.start[it.val].items # {} /\ new.core.paused[it.val].items # {}
               /\ new.core.elapsed[it.val].items # {}
    <3>1. it \in c.timer.items /\ it.val \in Ids
      BY <1>1, <1>8, <2>3 DEF CoreStates, Keys
    <3>2. c.start[it.val].items # {} /\ c.paused[it.val].items # {} /\ c.elapsed[it.val].items # {}
      BY <1>1, <2>1, <3>1 DEF Formed
    <3> QED BY <1>6, <1>8, <2>3, <3>1, <3>2
  <2> QED
    BY <2>4, <2>5 DEF Formed, new
<1>12. /\ DataInv' /\ doc'[d].core = core /\ doc'[d].entries = doc[d].entries
       /\ \A e \in Devices : e # d => doc'[e] = doc[e]
  <2>1. Wrote(doc[d].core.timer, core.timer, client[d].core)
    BY <1>8 DEF c, Wrote
  <2>2. \A j \in Ids : /\ Wrote(doc[d].core.start[j], core.start[j], client[d].core)
                        /\ Wrote(doc[d].core.paused[j], core.paused[j], client[d].core)
                        /\ Wrote(doc[d].core.elapsed[j], core.elapsed[j], client[d].core)
    BY <1>10 DEF c, me
  <2>3. born' \in Nat /\ born <= born' /\ Formed([doc[d] EXCEPT !.core = core], born')
    BY <1>11
  <2> QED BY <1>5, <1>9, <2>1, <2>2, <2>3, CoreStep
<1>13. Running(d)' /\ Timer(d)' = TimerOf(core)
  BY <1>8, <1>12 DEF Running, Timer, Instance, TimerOf, c
<1>15. /\ Timer(d)'.inst = i /\ Timer(d)'.start = Value(to)
       /\ Timer(d)'.paused = Value(held) /\ Timer(d)'.elapsed = Value(spent)
       /\ Timer(d).inst = i /\ Timer(d).start = Value(c.start[i])
       /\ Timer(d).paused = Value(c.paused[i]) /\ Timer(d).elapsed = Value(c.elapsed[i])
  BY <1>1, <1>8, <1>13 DEF TimerOf, Timer, Instance, c, i, to, held, spent
<1>16. doc'[d].core.timer = doc[d].core.timer
  BY <1>8, <1>12 DEF c
<1>17. /\ start = {} => Timer(d)'.start = Timer(d).start
       /\ start # {} => Timer(d)'.start \in start
       /\ paused = {} => Timer(d)'.paused = Timer(d).paused
       /\ paused # {} => Timer(d)'.paused \in paused
       /\ elapsed = {} => Timer(d)'.elapsed = Timer(d).elapsed
       /\ elapsed # {} => Timer(d)'.elapsed \in elapsed
  BY <1>7, <1>15 DEF to, held, spent
<1>18. Timer(d)' \in TimerRecords
  <2>1. Value(to) \in Int
    BY <1>1, <1>15, <1>17 DEF TimerRecords, Given
  <2>2. Value(held) \in BOOLEAN
    BY <1>1, <1>15, <1>17 DEF TimerRecords, Given
  <2>3. Value(spent) \in Nat
    BY <1>1, <1>15, <1>17 DEF TimerRecords, Given
  <2>4. Timer(d)' = [inst |-> i, start |-> Value(to), paused |-> Value(held),
                     elapsed |-> Value(spent)]
    BY <1>1, <1>8, <1>13 DEF TimerOf, to, held, spent
  <2> QED BY <1>1, <2>1, <2>2, <2>3, <2>4 DEF TimerRecords
<1>19. Refilled(Timer(d), Timer(d)', start, paused, elapsed)
  BY <1>15, <1>17 DEF Refilled
<1> QED
  BY <1>12, <1>13, <1>16, <1>18, <1>19

-----------------------------------------------------------------------------
(* The steps of the clock, the commands and the sync keep the invariant.    *)

\* At first all keys are empty.
LEMMA InitType == Init => TypeInv
<1> SUFFICES ASSUME Init PROVE TypeInv
  OBVIOUS
<1>1. /\ EmptyKey \in Keys(Paths, Ids) /\ EmptyKey \in Keys(Paths, Int)
      /\ EmptyKey \in Keys(Paths, BOOLEAN) /\ EmptyKey \in Keys(Paths, Nat)
      /\ EmptyKey \in Keys(Paths, Int \X Int)
  BY DEF EmptyKey, Keys
<1>2. Sound(EmptyKey) /\ EmptyKey.items = {} /\ EmptyKey.dead = {}
  BY DEF EmptyKey, Sound
<1> HIDE DEF EmptyKey
<1>3. EmptyDocs \in DocStates
  BY <1>1 DEF EmptyDocs, EmptyCore, DocStates, CoreStates
<1>4. ASSUME NEW s \in Slots PROVE KeyAt(EmptyDocs, s) = EmptyKey
  <2>1. CASE s = <<"timer", 0>>
    BY <2>1 DEF KeyAt, EmptyDocs, EmptyCore
  <2>2. CASE s[2] \in Ids /\ s[1] \in {"start", "paused", "elapsed", "entry"}
    BY <2>2 DEF KeyAt, EmptyDocs, EmptyCore
  <2> QED BY <2>1, <2>2, SlotKinds
<1>5. Formed(EmptyDocs, 0)
  BY <1>2 DEF Formed, EmptyDocs, EmptyCore
<1> HIDE DEF EmptyDocs
<1>6. doc = [d \in Devices |-> EmptyDocs] /\ disk = doc /\ cloud = EmptyDocs /\ born = 0
  BY DEF Init
<1>7. /\ \A x \in CopiesOf(doc, disk, cloud) : x = EmptyDocs
      /\ \A d \in Devices : doc[d] = EmptyDocs /\ disk[d] = EmptyDocs
  BY <1>6 DEF CopiesOf
<1>8. KeysFit(doc, disk, cloud, client, drawn)
  BY <1>2, <1>4, <1>7 DEF KeysFit, Agree, Within
<1>9. SessionsFit(client, drawn)
  <2>1. /\ client \in FirstClients /\ client \in [Devices -> [Docs -> Clients]]
        /\ drawn = [n \in Docs |-> {client[d][n] : d \in Devices}]
    BY ClientAssumption DEF Init
  <2>2. drawn \in [Docs -> SUBSET Clients]
    BY <2>1
  <2>3. \A d \in Devices, n \in Docs : client[d][n] \in drawn[n]
    BY <2>1
  <2>4. \A d, e \in Devices, n \in Docs : client[d][n] = client[e][n] => d = e
    BY <2>1, ClientAssumption
  <2> QED BY <2>1, <2>2, <2>3, <2>4 DEF SessionsFit
<1>10. DataInv
  BY <1>3, <1>5, <1>6, <1>7, <1>8, <1>9 DEF DataInv
<1>11. RestOK
  BY BoundsAssumption DEF Init, RestOK
<1> QED
  BY <1>10, <1>11 DEF TypeInv

\* The core document of a device, without the timer it shows.
LEMMA DropType ==
  ASSUME DataInv, NEW d \in Devices, NEW core, core = [doc[d].core EXCEPT !.timer = Delete(@)]
  PROVE  /\ core \in CoreStates /\ core.timer = Delete(doc[d].core.timer)
         /\ core.start = doc[d].core.start /\ core.paused = doc[d].core.paused
         /\ core.elapsed = doc[d].core.elapsed
         /\ core.timer.items = doc[d].core.timer.items
         /\ Sound(doc[d].core.timer) /\ doc[d].core.timer \in Keys(Paths, Ids)
<1> DEFINE c == doc[d].core
           key == Delete(c.timer)
<1>1. c \in CoreStates /\ Sound(c.timer)
  <2>1. <<"timer", 0>> \in Slots /\ KeyAt(doc[d], <<"timer", 0>>) = c.timer
    BY DEF Slots, KeyAt
  <2> QED BY <2>1, DeviceType DEF DocStates
<1>2. c.timer \in Keys(Paths, Ids)
  BY <1>1 DEF CoreStates
<1>3. key \in Keys(Paths, Ids) /\ key.items = c.timer.items
  BY <1>1, <1>2, DeleteType
<1>4. core = [c EXCEPT !.timer = key]
  OBVIOUS
<1> HIDE DEF c, key
<1>5. /\ core.timer = key /\ core.start = c.start /\ core.paused = c.paused
      /\ core.elapsed = c.elapsed
  BY <1>1, <1>4 DEF CoreStates
<1>6. core = [timer |-> core.timer, start |-> core.start, paused |-> core.paused,
              elapsed |-> core.elapsed]
  BY <1>1, <1>4 DEF CoreStates
<1>7. core \in CoreStates
  BY <1>1, <1>3, <1>5, <1>6 DEF CoreStates
<1> QED
  BY <1>1, <1>2, <1>3, <1>5, <1>7 DEF c, key

\* A device deletes the timer it shows.
LEMMA DropStep ==
  ASSUME DataInv, born \in Nat, born' = born, NEW d \in Devices,
         CoreOf(d, [doc[d].core EXCEPT !.timer = Delete(@)]),
         UNCHANGED <<disk, cloud, client, drawn>>
  PROVE  /\ DataInv' /\ ~Running(d)'
         /\ doc'[d].core.timer = Delete(doc[d].core.timer) /\ doc'[d].entries = doc[d].entries
         /\ \A e \in Devices : e # d => doc'[e] = doc[e]
<1> DEFINE core == [doc[d].core EXCEPT !.timer = Delete(@)]
           me == client[d].core
<1>1. /\ core \in CoreStates /\ core.timer = Delete(doc[d].core.timer)
      /\ core.start = doc[d].core.start /\ core.paused = doc[d].core.paused
      /\ core.elapsed = doc[d].core.elapsed
      /\ core.timer.items = doc[d].core.timer.items
      /\ Sound(doc[d].core.timer) /\ doc[d].core.timer \in Keys(Paths, Ids)
  BY DropType
<1>2. CoreOf(d, core)
  OBVIOUS
<1> HIDE DEF core
<1>3. /\ Wrote(doc[d].core.timer, core.timer, me)
      /\ \A i \in Ids : /\ Wrote(doc[d].core.start[i], core.start[i], me)
                        /\ Wrote(doc[d].core.paused[i], core.paused[i], me)
                        /\ Wrote(doc[d].core.elapsed[i], core.elapsed[i], me)
  BY <1>1 DEF Wrote
<1>4. Formed([doc[d] EXCEPT !.core = core], born')
  <2>1. Formed(doc[d], born) /\ doc[d] \in DocStates
    BY DeviceType
  <2>2. [doc[d] EXCEPT !.core = core].core = core
    BY <2>1 DEF DocStates
  <2> QED BY <1>1, <2>1, <2>2 DEF Formed
<1>5. /\ DataInv' /\ doc'[d].core = core /\ doc'[d].entries = doc[d].entries
      /\ \A e \in Devices : e # d => doc'[e] = doc[e]
  BY <1>1, <1>2, <1>3, <1>4, CoreStep DEF me
<1>6. ~Has(core.timer)
  BY <1>1, DeleteType
<1> QED
  BY <1>1, <1>5, <1>6 DEF Running

\* A command clears the timer.
LEMMA ClearType ==
  ASSUME TypeInv, NEW d \in Devices, Clear(d)
  PROVE  /\ TypeInv' /\ ~Running(d)'
         /\ doc'[d].core.timer = Delete(doc[d].core.timer) /\ doc'[d].entries = doc[d].entries
         /\ \A e \in Devices : e # d => doc'[e] = doc[e]
<1>1. /\ DataInv' /\ ~Running(d)'
      /\ doc'[d].core.timer = Delete(doc[d].core.timer) /\ doc'[d].entries = doc[d].entries
      /\ \A e \in Devices : e # d => doc'[e] = doc[e]
  <2>1. DataInv /\ born \in Nat
    BY DEF TypeInv, RestOK
  <2> QED BY <2>1, DropStep DEF Clear, ghosts
<1>2. Instance(d) \in Ids
  BY DeviceType DEF TypeInv, Clear
<1>3. RestOK'
  BY <1>2, BoundsAssumption DEF TypeInv, RestOK, Clear, Command, CallOK, SeenOK
<1> QED
  BY <1>1, <1>3 DEF TypeInv

\* A timer is paused.
LEMMA PauseType ==
  ASSUME TypeInv, NEW d \in Devices, NEW at \in 0..Horizon, Pause(d, at)
  PROVE  /\ TypeInv' /\ Running(d) /\ Running(d)'
         /\ Timer(d)'.inst = Timer(d).inst /\ Timer(d)'.inst \in Ids
         /\ PauseEnd(Timer(d)') \in pausedAt'[Timer(d)'.inst]
         /\ \A i \in Ids : pausedAt[i] \subseteq pausedAt'[i]
         /\ doc'[d].core.timer = doc[d].core.timer /\ doc'[d].entries = doc[d].entries
         /\ \A e \in Devices : e # d => doc'[e] = doc[e]
<1> DEFINE t == Timer(d)
           spent == Later(0, at - t.start)
<1>1. DataInv /\ born \in Nat /\ Running(d) /\ t \in TimerRecords
  BY DeviceType DEF TypeInv, RestOK, Pause
<1>2. t.start \in Int /\ t.inst \in Ids
  BY <1>1 DEF TimerRecords
<1>3. spent \in Nat
  BY <1>2 DEF Later
<1>4. /\ WriteFields(d, t.inst, {}, {TRUE}, {spent})
      /\ pausedAt' = [pausedAt EXCEPT ![t.inst] = @ \cup {t.start + spent}]
      /\ UNCHANGED <<disk, cloud, client, drawn, calls, pass, clock, born, crashes, waived>>
      /\ Command
  BY DEF Pause
<1> HIDE DEF spent
<1>5. /\ DataInv' /\ Running(d)'
      /\ Timer(d)'.inst = t.inst /\ Timer(d)'.start = t.start /\ Timer(d)'.elapsed = spent
      /\ doc'[d].core.timer = doc[d].core.timer /\ doc'[d].entries = doc[d].entries
      /\ \A e \in Devices : e # d => doc'[e] = doc[e]
  <2> DEFINE none == {}
             held == {TRUE}
             took == {spent}
  <2>1. none = {} /\ held = {TRUE} /\ took = {spent} /\ held # {} /\ took # {}
        /\ WriteFields(d, t.inst, none, held, took)
    BY <1>4
  <2> HIDE DEF none, held, took
  <2>2. Given(none, Int) /\ Given(held, BOOLEAN) /\ Given(took, Nat)
    BY <1>3, <2>1 DEF Given
  <2>3. UNCHANGED <<disk, cloud, client, drawn>> /\ born' = born
    BY <1>4
  <2>4. /\ DataInv' /\ Running(d)' /\ Timer(d)' \in TimerRecords
        /\ Refilled(t, Timer(d)', none, held, took)
        /\ doc'[d].core.timer = doc[d].core.timer /\ doc'[d].entries = doc[d].entries
    BY <1>1, <2>1, <2>2, <2>3, FieldsStep
  <2>8. ASSUME NEW e \in Devices, e # d PROVE doc'[e] = doc[e]
    BY <2>1, <2>8, OthersStay DEF TypeInv, DataInv
  <2> QED
    BY <2>1, <2>4, <2>8 DEF Refilled
<1> HIDE DEF t
<1>6. pausedAt \in [Ids -> SUBSET Int] /\ t.start + spent \in Int
  BY <1>2, <1>3 DEF TypeInv, RestOK
<1>7. /\ pausedAt' \in [Ids -> SUBSET Int] /\ t.start + spent \in pausedAt'[t.inst]
      /\ \A i \in Ids : pausedAt[i] \subseteq pausedAt'[i]
  BY <1>2, <1>4, <1>6
<1>8. RestOK'
  BY <1>4, <1>7, BoundsAssumption DEF TypeInv, RestOK, Command, CallOK, SeenOK
<1>9. PauseEnd(Timer(d)') = t.start + spent
  BY <1>2, <1>3, <1>5 DEF PauseEnd, Later
<1> QED
  BY <1>1, <1>2, <1>5, <1>7, <1>8, <1>9 DEF TypeInv, t

\* A timer is resumed.
LEMMA ResumeType ==
  ASSUME TypeInv, NEW d \in Devices, Resume(d)
  PROVE  /\ TypeInv' /\ Running(d) /\ Running(d)' /\ ~Timer(d)'.paused
         /\ doc'[d].core.timer = doc[d].core.timer /\ doc'[d].entries = doc[d].entries
         /\ \A e \in Devices : e # d => doc'[e] = doc[e]
<1> DEFINE t == Timer(d)
           to == clock - Later(0, t.elapsed)
           starts == {to}
           held == {FALSE}
           took == {0}
<1>1. DataInv /\ born \in Nat /\ clock \in Int /\ Running(d) /\ t \in TimerRecords
  BY DeviceType, BoundsAssumption DEF TypeInv, RestOK, Resume
<1>2. to \in Int
  <2>1. t.elapsed \in Nat
    BY <1>1 DEF TimerRecords
  <2> HIDE DEF t
  <2>2. Later(0, t.elapsed) \in Int
    BY <2>1 DEF Later
  <2> QED BY <1>1, <2>2
<1>3. /\ WriteFields(d, t.inst, starts, held, took)
      /\ UNCHANGED <<disk, cloud, client, calls, pass, clock, born, ghosts>>
      /\ Command
  BY DEF Resume
<1> HIDE DEF to
<1>4. Given(starts, Int) /\ Given(held, BOOLEAN) /\ Given(took, Nat)
  BY <1>2 DEF Given
<1>5. UNCHANGED <<disk, cloud, client, drawn>> /\ born' = born
  BY <1>3 DEF ghosts
<1>6. held = {FALSE}
  OBVIOUS
<1> HIDE DEF starts, held, took
<1>7. DataInv' /\ Running(d)' /\ Refilled(t, Timer(d)', starts, held, took)
  BY <1>1, <1>3, <1>4, <1>5, FieldsStep
<1>8. doc'[d].core.timer = doc[d].core.timer /\ doc'[d].entries = doc[d].entries
  BY <1>1, <1>3, <1>4, <1>5, FieldsStep
<1>9. ASSUME NEW e \in Devices, e # d PROVE doc'[e] = doc[e]
  BY <1>3, <1>9, OthersStay DEF TypeInv, DataInv
<1>10. RestOK'
  BY <1>3, BoundsAssumption DEF TypeInv, RestOK, Command, CallOK, SeenOK, ghosts
<1>11. ~Timer(d)'.paused
  BY <1>6, <1>7 DEF Refilled
<1> QED
  BY <1>1, <1>7, <1>8, <1>9, <1>10, <1>11 DEF TypeInv

\* The start of a timer is moved; if it is paused, it stays paused where it was.
LEMMA MoveStep ==
  ASSUME TypeInv, NEW d \in Devices, Running(d), NEW to \in Int, Movable(Timer(d), to),
         WriteMove(d, Timer(d), to), born' = born, UNCHANGED <<disk, cloud, client, drawn>>
  PROVE  /\ DataInv' /\ Running(d)'
         /\ Timer(d)'.inst = Timer(d).inst /\ Timer(d).inst \in Ids
         /\ Timer(d)'.paused = Timer(d).paused
         /\ Timer(d).paused => PauseEnd(Timer(d)') = PauseEnd(Timer(d))
         /\ doc'[d].core.timer = doc[d].core.timer /\ doc'[d].entries = doc[d].entries
         /\ \A e \in Devices : e # d => doc'[e] = doc[e]
<1> DEFINE t == Timer(d)
           left == Moved(t, to).elapsed
           starts == {to}
           held == {}
           took == IF t.paused THEN {left} ELSE {}
<1>1. DataInv /\ born \in Nat /\ t \in TimerRecords
  BY DeviceType DEF TypeInv, RestOK
<1>2. /\ t.paused \in BOOLEAN /\ t.elapsed \in Nat /\ t.start \in Int /\ t.inst \in Ids
      /\ t = [inst |-> t.inst, start |-> t.start, paused |-> t.paused, elapsed |-> t.elapsed]
  BY <1>1 DEF TimerRecords
<1>3. WriteFields(d, t.inst, starts, held, took)
  BY DEF WriteMove
<1>4. left >= 0 /\ left = IF t.paused THEN PauseEnd(t) - to ELSE t.elapsed
  <2>1. left >= 0
    BY DEF Movable
  <2> HIDE DEF t
  <2> QED BY <1>1, <2>1 DEF Moved, TimerRecords
<1> HIDE DEF t, left
<1>5. PauseEnd(t) = t.start + t.elapsed
  BY <1>2 DEF PauseEnd, Later
<1>6. left \in Nat
  BY <1>2, <1>4, <1>5
<1>7. starts = {to} /\ held = {} /\ (t.paused => took = {left})
  OBVIOUS
<1>8. Given(starts, Int) /\ Given(held, BOOLEAN) /\ Given(took, Nat)
  BY <1>6 DEF Given
<1> HIDE DEF starts, held, took
<1>9. DataInv' /\ Running(d)' /\ Refilled(t, Timer(d)', starts, held, took)
  BY <1>1, <1>3, <1>8, FieldsStep DEF t
<1>10. Timer(d)'.inst = t.inst /\ Timer(d)'.start = to /\ Timer(d)'.paused = t.paused
  BY <1>7, <1>9 DEF Refilled
<1>11. ASSUME t.paused PROVE Timer(d)'.elapsed = left
  BY <1>7, <1>9, <1>11 DEF Refilled
<1>12. doc'[d].core.timer = doc[d].core.timer /\ doc'[d].entries = doc[d].entries
  BY <1>1, <1>3, <1>8, FieldsStep DEF t
<1>13. ASSUME NEW e \in Devices, e # d PROVE doc'[e] = doc[e]
  BY <1>3, <1>13, OthersStay DEF TypeInv, DataInv
<1>14. ASSUME t.paused PROVE PauseEnd(Timer(d)') = PauseEnd(t)
  BY <1>2, <1>4, <1>5, <1>6, <1>10, <1>11, <1>14 DEF PauseEnd, Later
<1> QED
  BY <1>2, <1>9, <1>10, <1>12, <1>13, <1>14 DEF t

\* An edit that does not wait.
LEMMA EditInPlaceType ==
  ASSUME TypeInv, NEW d \in Devices, EditInPlace(d)
  PROVE  /\ TypeInv' /\ Running(d) /\ Running(d)'
         /\ Timer(d)'.inst = Timer(d).inst /\ Timer(d).inst \in Ids
         /\ Timer(d)'.paused = Timer(d).paused
         /\ Timer(d).paused => PauseEnd(Timer(d)') = PauseEnd(Timer(d))
         /\ doc'[d].core.timer = doc[d].core.timer /\ doc'[d].entries = doc[d].entries
         /\ \A e \in Devices : e # d => doc'[e] = doc[e]
<1> DEFINE to == Timer(d).start
<1>1. /\ Running(d) /\ Movable(Timer(d), to) /\ WriteMove(d, Timer(d), to) /\ Command
      /\ UNCHANGED <<disk, cloud, client, calls, pass, clock, born, ghosts>>
  BY DEF EditInPlace
<1>2. to \in Int
  BY <1>1, DeviceType DEF TypeInv, TimerRecords
<1>3. UNCHANGED <<disk, cloud, client, drawn>> /\ born' = born
  BY <1>1 DEF ghosts
<1> HIDE DEF to
<1>4. /\ DataInv' /\ Running(d)' /\ Timer(d)'.inst = Timer(d).inst /\ Timer(d).inst \in Ids
      /\ Timer(d)'.paused = Timer(d).paused
      /\ Timer(d).paused => PauseEnd(Timer(d)') = PauseEnd(Timer(d))
      /\ doc'[d].core.timer = doc[d].core.timer /\ doc'[d].entries = doc[d].entries
      /\ \A e \in Devices : e # d => doc'[e] = doc[e]
  BY <1>1, <1>2, <1>3, MoveStep
<1>5. RestOK'
  BY <1>1, BoundsAssumption DEF TypeInv, RestOK, Command, CallOK, SeenOK, ghosts
<1> QED
  BY <1>1, <1>4, <1>5 DEF TypeInv

\* An edit that waited moves the timer it reads now, or leaves all as it is.
LEMMA FinishEditType ==
  ASSUME TypeInv, NEW c \in calls, FinishEdit(c)
  PROVE  /\ TypeInv' /\ c.device \in Devices
         /\ calls' = calls \ {c} /\ UNCHANGED <<disk, cloud, waived, pausedAt>>
         /\ \/ UNCHANGED doc
            \/ LET d == c.device IN
                 /\ Running(d) /\ Running(d)'
                 /\ Timer(d)'.inst = Timer(d).inst /\ Timer(d).inst \in Ids
                 /\ Timer(d)'.paused = Timer(d).paused
                 /\ Timer(d).paused => PauseEnd(Timer(d)') = PauseEnd(Timer(d))
                 /\ doc'[d].core.timer = doc[d].core.timer /\ doc'[d].entries = doc[d].entries
                 /\ \A e \in Devices : e # d => doc'[e] = doc[e]
<1> DEFINE d == c.device
<1>1. /\ c.kind = "edit" /\ calls' = calls \ {c}
      /\ UNCHANGED <<disk, cloud, client, pass, clock, born, given, ghosts>>
  BY DEF FinishEdit, Return
<1>2. d \in Devices /\ c.to \in Int /\ CallOK(c)
  BY <1>1 DEF TypeInv, RestOK, CallOK
<1>3. RestOK'
  BY <1>1 DEF TypeInv, RestOK, ghosts, CallOK, SeenOK
<1>4. UNCHANGED <<disk, cloud, client, drawn, waived, pausedAt>> /\ born' = born
  BY <1>1 DEF ghosts
<1>5. CASE UNCHANGED doc
  <2>1. DataInv'
    BY <1>4, <1>5 DEF TypeInv, DataInv
  <2> QED BY <1>1, <1>2, <1>3, <1>4, <1>5, <2>1 DEF TypeInv
<1>6. CASE Unchanged(c) /\ Movable(Timer(d), c.to) /\ WriteMove(d, Timer(d), c.to)
  <2>1. Running(d)
    BY <1>6 DEF Unchanged
  <2> DEFINE to == c.to
  <2>2. to \in Int /\ Movable(Timer(d), to) /\ WriteMove(d, Timer(d), to)
    BY <1>2, <1>6
  <2> HIDE DEF d, to
  <2>3. /\ DataInv' /\ Running(d)' /\ Timer(d)'.inst = Timer(d).inst /\ Timer(d).inst \in Ids
        /\ Timer(d)'.paused = Timer(d).paused
        /\ Timer(d).paused => PauseEnd(Timer(d)') = PauseEnd(Timer(d))
        /\ doc'[d].core.timer = doc[d].core.timer /\ doc'[d].entries = doc[d].entries
        /\ \A e \in Devices : e # d => doc'[e] = doc[e]
    BY <1>2, <1>4, <2>1, <2>2, MoveStep
  <2> QED BY <1>1, <1>2, <1>3, <1>4, <2>1, <2>3 DEF TypeInv, d
<1> QED
  BY <1>5, <1>6 DEF FinishEdit

\* Steps that leave the documents as they are.
LEMMA StayStep ==
  ASSUME DataInv, UNCHANGED <<doc, disk, cloud, client, drawn, born>>
  PROVE  DataInv'
BY DEF DataInv

\* An edit, a stop or a manual entry begins to wait; the clock goes on.
LEMMA WaitType ==
  ASSUME TypeInv,
         \/ Tick
         \/ \E d \in Devices, to \in 0..Horizon : BeginEdit(d, to)
         \/ \E d \in Devices : BeginStop(d)
         \/ \E d \in Devices, s \in Spans : BeginManual(d, s)
  PROVE  TypeInv' /\ UNCHANGED <<doc, disk, cloud, waived, pausedAt>>
<1>1. CASE Tick
  <2>1. DataInv' /\ UNCHANGED <<doc, disk, cloud, waived, pausedAt>>
    BY <1>1, StayStep DEF TypeInv, Tick, dataVars, ghosts
  <2>2. RestOK'
    BY <1>1, BoundsAssumption DEF TypeInv, RestOK, Tick, ghosts, CallOK, SeenOK
  <2> QED BY <2>1, <2>2 DEF TypeInv
<1>2. ASSUME NEW d \in Devices, NEW call, Begin(d, call), CallOK(call)
      PROVE  TypeInv' /\ UNCHANGED <<doc, disk, cloud, waived, pausedAt>>
  <2>1. DataInv' /\ UNCHANGED <<doc, disk, cloud, waived, pausedAt>>
    BY <1>2, StayStep DEF TypeInv, Begin, ghosts
  <2>2. calls' = calls \cup {call} /\ given' = given + 1 /\ given < MaxCommands
        /\ UNCHANGED <<pass, clock, born, crashes, waived, pausedAt>>
    BY <1>2 DEF Begin, Command, ghosts
  <2>3. RestOK'
    BY <1>2, <2>2, BoundsAssumption DEF TypeInv, RestOK
  <2> QED BY <2>1, <2>3 DEF TypeInv
<1>3. given \in 0..MaxCommands /\ DataInv
  BY DEF TypeInv, RestOK
<1>4. ASSUME NEW d \in Devices, NEW to \in 0..Horizon, BeginEdit(d, to)
      PROVE  TypeInv' /\ UNCHANGED <<doc, disk, cloud, waived, pausedAt>>
  <2> DEFINE call == [kind |-> "edit", device |-> d, n |-> given, asked |-> Timer(d), to |-> to]
  <2>1. Begin(d, call) /\ Running(d)
    BY <1>4 DEF BeginEdit
  <2>2. Timer(d) \in TimerRecords
    BY <1>3, <2>1, DeviceType
  <2>3. CallOK(call)
    BY <1>3, <2>2 DEF CallOK
  <2> HIDE DEF call
  <2> QED BY <1>2, <2>1, <2>3
<1>5. ASSUME NEW d \in Devices, BeginStop(d)
      PROVE  TypeInv' /\ UNCHANGED <<doc, disk, cloud, waived, pausedAt>>
  <2> DEFINE call == [kind |-> "stop", device |-> d, n |-> given, asked |-> Timer(d),
                      seen |-> Entries(doc[d].entries)]
  <2>1. Begin(d, call) /\ Running(d)
    BY <1>5 DEF BeginStop
  <2>2. Timer(d) \in TimerRecords /\ Entries(doc[d].entries) \subseteq Ids \X (Int \X Int)
    BY <1>3, <2>1, DeviceType
  <2>3. CallOK(call)
    BY <1>3, <2>2 DEF CallOK, SeenOK
  <2> HIDE DEF call
  <2> QED BY <1>2, <2>1, <2>3
<1>6. ASSUME NEW d \in Devices, NEW s \in Spans, BeginManual(d, s)
      PROVE  TypeInv' /\ UNCHANGED <<doc, disk, cloud, waived, pausedAt>>
  <2> DEFINE call == [kind |-> "manual", device |-> d, n |-> given, span |-> s,
                      seen |-> Entries(doc[d].entries)]
  <2>1. Begin(d, call)
    BY <1>6 DEF BeginManual
  <2>2. Entries(doc[d].entries) \subseteq Ids \X (Int \X Int)
    BY <1>3, DeviceType
  <2>3. CallOK(call)
    BY <1>3, <2>2 DEF CallOK, SeenOK
  <2> HIDE DEF call
  <2> QED BY <1>2, <2>1, <2>3
<1> QED
  BY <1>1, <1>4, <1>5, <1>6

\* A sync pass ends with the reconciliation.
LEMMA EndPassType ==
  ASSUME TypeInv, NEW d \in Devices, EndPass(d)
  PROVE  /\ TypeInv' /\ UNCHANGED <<disk, cloud, calls, waived, pausedAt>>
         /\ doc'[d].entries = doc[d].entries
         /\ \A e \in Devices : e # d => doc'[e] = doc[e]
         /\ \/ UNCHANGED doc
            \/ /\ Ghost(d) /\ ~Running(d)'
               /\ doc'[d].core.timer = Delete(doc[d].core.timer)
<1>1. /\ CoreOf(d, Reconciled(d)) /\ pass' = [pass EXCEPT ![d] = {}]
      /\ UNCHANGED <<disk, cloud, client, calls, clock, born, given, ghosts>>
      /\ DataInv /\ born \in Nat /\ born' = born /\ UNCHANGED <<disk, cloud, client, drawn>>
  BY DEF EndPass, TypeInv, RestOK, ghosts
<1>2. RestOK'
  <2>1. pass' \in [Devices -> SUBSET Docs]
    BY <1>1 DEF TypeInv, RestOK
  <2> QED BY <1>1, <2>1 DEF TypeInv, RestOK, ghosts, CallOK, SeenOK
<1>3. CASE Ghost(d)
  <2>1. CoreOf(d, [doc[d].core EXCEPT !.timer = Delete(@)])
    BY <1>1, <1>3 DEF Reconciled
  <2>2. /\ DataInv' /\ ~Running(d)'
        /\ doc'[d].core.timer = Delete(doc[d].core.timer) /\ doc'[d].entries = doc[d].entries
        /\ \A e \in Devices : e # d => doc'[e] = doc[e]
    BY <1>1, <2>1, DropStep
  <2> QED BY <1>1, <1>2, <1>3, <2>2 DEF TypeInv, ghosts
<1>4. CASE ~Ghost(d)
  <2>1. doc' = [doc EXCEPT ![d].core = doc[d].core]
    BY <1>1, <1>4 DEF Reconciled, CoreOf
  <2>2. doc \in [Devices -> DocStates] /\ doc[d] \in DocStates
    BY <1>1 DEF DataInv
  <2>3. doc' = doc
    BY <2>1, <2>2 DEF DocStates
  <2>4. DataInv'
    BY <1>1, <2>3, StayStep
  <2> QED BY <1>1, <1>2, <2>3, <2>4 DEF TypeInv, ghosts
<1> QED
  BY <1>3, <1>4

\* One of the two documents of a copy is replaced.
Replaced(x, n, with, new) ==
  IF n = "core" THEN new = [core |-> with, entries |-> x.entries]
  ELSE new = [core |-> x.core, entries |-> with]

\* That is what an assignment of the document does.
LEMMA ReplacedType ==
  ASSUME NEW x \in DocStates, NEW n \in Docs, NEW with
  PROVE  Replaced(x, n, with, [x EXCEPT ![n] = with])
<1> DEFINE new == [x EXCEPT ![n] = with]
<1>1. x = [core |-> x.core, entries |-> x.entries]
  BY DEF DocStates
<1>2. CASE n = "core"
  <2>1. new = [x EXCEPT !.core = with]
    BY <1>2
  <2> HIDE DEF new
  <2>2. new = [core |-> with, entries |-> x.entries]
    BY <1>1, <2>1
  <2> QED BY <1>2, <2>2 DEF Replaced, new
<1>3. CASE n = "entries"
  <2>1. new = [x EXCEPT !.entries = with]
    BY <1>3
  <2> HIDE DEF new
  <2>2. new = [core |-> x.core, entries |-> with]
    BY <1>1, <2>1
  <2> QED BY <1>3, <2>2 DEF Replaced, new
<1> QED
  BY <1>2, <1>3 DEF Docs

\* A document is saved.
LEMMA PersistType ==
  ASSUME TypeInv, NEW d \in Devices, NEW n \in Docs, Persist(d, n)
  PROVE  /\ TypeInv' /\ UNCHANGED <<doc, cloud, calls, waived, pausedAt>>
         /\ \A e \in Devices : e # d => disk'[e] = disk[e]
         /\ n = "core" => disk'[d].core = doc[d].core /\ disk'[d].entries = disk[d].entries
         /\ n = "entries" => disk'[d].entries = doc[d].entries /\ disk'[d].core = disk[d].core
<1> DEFINE new == [disk[d] EXCEPT ![n] = doc[d][n]]
<1>1. /\ disk' = [disk EXCEPT ![d][n] = doc[d][n]]
      /\ UNCHANGED <<doc, cloud, client, calls, pass, clock, born, given, ghosts>>
      /\ UNCHANGED <<doc, cloud, client, drawn, calls, waived, pausedAt>>
      /\ DataInv /\ doc[d] \in DocStates /\ disk[d] \in DocStates /\ disk \in [Devices -> DocStates]
      /\ Formed(doc[d], born) /\ Formed(disk[d], born)
      /\ KeysFit(doc, disk, cloud, client, drawn)
  BY DeviceType DEF Persist, TypeInv, ghosts, DataInv
<1>2. disk' = [disk EXCEPT ![d] = new]
  BY <1>1
<1>3. n = "core" => new.core = doc[d].core /\ new.entries = disk[d].entries
  BY <1>1 DEF DocStates
<1>4. n = "entries" => new.entries = doc[d].entries /\ new.core = disk[d].core
  BY <1>1 DEF DocStates
<1>5. new = [core |-> new.core, entries |-> new.entries]
  <2>1. Replaced(disk[d], n, doc[d][n], new)
    BY <1>1, ReplacedType
  <2> HIDE DEF new
  <2> QED BY <2>1 DEF Replaced
<1> HIDE DEF new
<1>6. n = "core" \/ n = "entries"
  BY DEF Docs
<1>7. new \in DocStates
  BY <1>1, <1>3, <1>4, <1>5, <1>6 DEF DocStates
<1>8. Formed(new, born)
  BY <1>1, <1>3, <1>4, <1>6 DEF Formed
<1>9. ASSUME NEW s \in Slots PROVE KeyAt(new, s) \in {KeyAt(disk[d], s), KeyAt(doc[d], s)}
  <2>1. CASE s[1] = "entry"
    BY <1>3, <1>4, <1>6, <2>1 DEF KeyAt
  <2>2. CASE s[1] # "entry"
    <3>1. \A x : x.core = disk[d].core => KeyAt(x, s) = KeyAt(disk[d], s)
      BY <2>2, SlotKinds DEF KeyAt
    <3>2. \A x : x.core = doc[d].core => KeyAt(x, s) = KeyAt(doc[d], s)
      BY <2>2, SlotKinds DEF KeyAt
    <3> QED BY <1>3, <1>4, <1>6, <3>1, <3>2
  <2> QED BY <2>1, <2>2
<1>10. KeysFit(doc, [disk EXCEPT ![d] = new], cloud, client, drawn)
  BY <1>1, <1>9, SaveFits
<1>11. KeysFit(doc', disk', cloud', client', drawn')
  BY <1>1, <1>2, <1>10
<1>12. disk' \in [Devices -> DocStates] /\ disk'[d] = new
       /\ \A e \in Devices : e # d => disk'[e] = disk[e]
  BY <1>1, <1>2, <1>7
<1>13. \A x \in CopiesOf(doc', disk', cloud') : Formed(x, born')
  <2>1. \A x \in CopiesOf(doc', disk', cloud') : x = new \/ x \in CopiesOf(doc, disk, cloud)
    BY <1>1, <1>12 DEF CopiesOf
  <2>2. born' = born
    BY <1>1
  <2> QED BY <1>1, <1>8, <2>1, <2>2 DEF DataInv
<1>14. DataInv'
  BY <1>1, <1>11, <1>12, <1>13 DEF DataInv
<1>15. RestOK'
  BY <1>1 DEF TypeInv, RestOK, ghosts, CallOK, SeenOK
<1> QED
  BY <1>1, <1>3, <1>4, <1>12, <1>14, <1>15 DEF TypeInv

\* A tab dies.
LEMMA CrashType ==
  ASSUME TypeInv, NEW d \in Devices, Crash(d)
  PROVE  /\ TypeInv' /\ UNCHANGED <<disk, cloud, waived, pausedAt>>
         /\ doc'[d] = disk[d] /\ \A e \in Devices : e # d => doc'[e] = doc[e]
         /\ calls' = calls \ InFlight(d)
<1>1. PICK c \in Clients, e \in Clients :
        /\ c \notin drawn["core"] /\ e \notin drawn["entries"]
        /\ client' = [client EXCEPT ![d] = [core |-> c, entries |-> e]]
        /\ drawn' = [core |-> drawn["core"] \cup {c}, entries |-> drawn["entries"] \cup {e}]
  BY DEF Crash
<1>2. /\ doc' = [doc EXCEPT ![d] = disk[d]] /\ pass' = [pass EXCEPT ![d] = {}]
      /\ calls' = calls \ InFlight(d) /\ crashes < MaxCrashes /\ crashes' = crashes + 1
      /\ UNCHANGED <<disk, cloud, clock, born, given, waived, pausedAt>>
  BY DEF Crash
<1>3. /\ DataInv /\ doc \in [Devices -> DocStates] /\ disk \in [Devices -> DocStates]
      /\ SessionsFit(client, drawn) /\ KeysFit(doc, disk, cloud, client, drawn)
      /\ client \in [Devices -> [Docs -> Clients]] /\ drawn \in [Docs -> SUBSET Clients]
  BY DEF TypeInv, DataInv, SessionsFit
<1>4. \A x \in Docs : x = "core" \/ x = "entries"
  BY DEF Docs
<1>5. /\ client'[d].core = c /\ client'[d].entries = e
      /\ \A o \in Devices : o # d => client'[o] = client[o]
  BY <1>1, <1>3
<1>6. drawn'["core"] = drawn["core"] \cup {c} /\ drawn'["entries"] = drawn["entries"] \cup {e}
  BY <1>1
<1>7. \A n \in Docs : client'[d][n] \notin drawn[n] /\ drawn[n] \subseteq drawn'[n]
                      /\ client'[d][n] \in drawn'[n]
  BY <1>1, <1>4, <1>5, <1>6
<1>8. client' \in [Devices -> [Docs -> Clients]] /\ drawn' \in [Docs -> SUBSET Clients]
  <2>1. [core |-> c, entries |-> e] \in [Docs -> Clients]
    BY DEF Docs
  <2>2. drawn["core"] \cup {c} \in SUBSET Clients /\ drawn["entries"] \cup {e} \in SUBSET Clients
    BY <1>3 DEF Docs
  <2>3. drawn' \in [Docs -> SUBSET Clients]
    BY <1>1, <2>2 DEF Docs
  <2> QED BY <1>1, <1>3, <2>1, <2>3
<1>9. SessionsFit(client', drawn')
  <2>1. \A o \in Devices, n \in Docs : client'[o][n] \in drawn'[n]
    BY <1>3, <1>5, <1>7 DEF SessionsFit
  <2>2. \A o, p \in Devices, n \in Docs : client'[o][n] = client'[p][n] => o = p
    BY <1>3, <1>5, <1>7 DEF SessionsFit
  <2> QED BY <1>8, <2>1, <2>2 DEF SessionsFit
<1>10. KeysFit([doc EXCEPT ![d] = disk[d]], disk, cloud, client', drawn')
  BY <1>3, <1>5, <1>7, CrashFits
<1>11. KeysFit(doc', disk', cloud', client', drawn')
  BY <1>2, <1>10
<1>12. /\ doc' \in [Devices -> DocStates] /\ doc'[d] = disk[d]
       /\ \A o \in Devices : o # d => doc'[o] = doc[o]
  BY <1>2, <1>3
<1>13. \A x \in CopiesOf(doc', disk', cloud') : Formed(x, born')
  <2>1. \A x \in CopiesOf(doc', disk', cloud') : x \in CopiesOf(doc, disk, cloud)
    BY <1>2, <1>12 DEF CopiesOf
  <2> QED BY <1>2, <1>3, <2>1 DEF DataInv
<1>14. DataInv'
  BY <1>2, <1>3, <1>9, <1>11, <1>12, <1>13 DEF DataInv
<1>15. RestOK'
  <2>1. pass' \in [Devices -> SUBSET Docs]
    BY <1>2 DEF TypeInv, RestOK
  <2>2. \A k \in calls' : CallOK(k)'
    BY <1>2 DEF TypeInv, RestOK, CallOK, SeenOK
  <2> QED BY <1>2, <2>1, <2>2, BoundsAssumption DEF TypeInv, RestOK
<1> QED
  BY <1>2, <1>12, <1>14, <1>15 DEF TypeInv

\* The merge of two keys is typed.
LEMMA MergeType ==
  ASSUME NEW Val, NEW a \in Keys(Paths, Val), NEW b \in Keys(Paths, Val)
  PROVE  /\ Merge(a, b) \in Keys(Paths, Val)
         /\ Merge(a, b).items = a.items \cup b.items /\ Merge(a, b).dead = a.dead \cup b.dead
         /\ a = EmptyKey /\ b = EmptyKey => Merge(a, b) = EmptyKey
<1>1. /\ a.items \cup b.items \in SUBSET [path : Paths, val : Val]
      /\ a.dead \cup b.dead \in SUBSET Paths
  BY DEF Keys
<1>2. Merge(a, b) \in Keys(Paths, Val)
  BY <1>1 DEF Merge, Keys
<1>3. a = EmptyKey /\ b = EmptyKey => Merge(a, b) = EmptyKey
  BY DEF Merge, EmptyKey
<1> QED
  BY <1>2, <1>3 DEF Merge

\* The merge of two maps of fields.
LEMMA MergeFieldsType ==
  ASSUME NEW Val, NEW f \in [Ids -> Keys(Paths, Val)], NEW g \in [Ids -> Keys(Paths, Val)]
  PROVE  /\ MergeFields(f, g) \in [Ids -> Keys(Paths, Val)]
         /\ \A i \in Ids : MergeFields(f, g)[i] = Merge(f[i], g[i])
BY MergeType DEF MergeFields

\* A copy x after an exchange of the document n with a copy y.
Exchanged(x, y, n, both, new) ==
  /\ n = "core" => new.entries = x.entries /\ new.core = both
  /\ n = "entries" => new.core = x.core /\ new.entries = both
  /\ \A s \in Slots : KeyAt(new, s) =
       IF DocOf(s) = n THEN Merge(KeyAt(x, s), KeyAt(y, s)) ELSE KeyAt(x, s)

\* An exchange keeps a copy well formed, if the other one is.
LEMMA ExchangeType ==
  ASSUME NEW x \in DocStates, NEW y \in DocStates, NEW n \in Docs, NEW both,
         both = MergeDoc(n, x[n], y[n]), NEW new, Replaced(x, n, both, new),
         NEW made, Formed(x, made), Formed(y, made)
  PROVE  new \in DocStates /\ Formed(new, made) /\ Exchanged(x, y, n, both, new)
<1>1. /\ x.core \in CoreStates /\ y.core \in CoreStates
      /\ x.entries \in [Ids -> Keys(Paths, Int \X Int)]
      /\ y.entries \in [Ids -> Keys(Paths, Int \X Int)]
      /\ x = [core |-> x.core, entries |-> x.entries]
  BY DEF DocStates
<1>2. CASE n = "entries"
  <2>1. both = MergeFields(x.entries, y.entries)
    BY <1>2 DEF MergeDoc
  <2>2. new = [core |-> x.core, entries |-> both]
    BY <1>2 DEF Replaced
  <2>3. both \in [Ids -> Keys(Paths, Int \X Int)]
        /\ \A i \in Ids : both[i] = Merge(x.entries[i], y.entries[i])
    BY <1>1, <2>1, MergeFieldsType
  <2>4. new \in DocStates /\ new.core = x.core /\ new.entries = both
    BY <1>1, <2>2, <2>3 DEF DocStates
  <2>5. Formed(new, made)
    BY <2>4 DEF Formed
  <2>6. ASSUME NEW s \in Slots
        PROVE  KeyAt(new, s) =
                 IF DocOf(s) = n THEN Merge(KeyAt(x, s), KeyAt(y, s)) ELSE KeyAt(x, s)
    <3>1. CASE s[1] = "entry"
      <4>1. s[2] \in Ids
        BY <3>1, SlotKinds
      <4> QED BY <1>2, <2>3, <2>4, <3>1, <4>1 DEF KeyAt, DocOf
    <3>2. CASE s[1] # "entry"
      <4>1. s[1] \in {"timer", "start", "paused", "elapsed"}
        BY <3>2, SlotKinds
      <4> QED BY <1>2, <2>4, <3>2, <4>1 DEF KeyAt, DocOf
    <3> QED BY <3>1, <3>2
  <2> QED BY <1>2, <2>4, <2>5, <2>6 DEF Exchanged
<1>3. CASE n = "core"
  <2> DEFINE a == x.core
             b == y.core
  <2>1. both = [timer |-> Merge(a.timer, b.timer), start |-> MergeFields(a.start, b.start),
                paused |-> MergeFields(a.paused, b.paused),
                elapsed |-> MergeFields(a.elapsed, b.elapsed)]
    BY <1>3 DEF MergeDoc
  <2>2. new = [core |-> both, entries |-> x.entries]
    BY <1>3 DEF Replaced
  <2> HIDE DEF a, b
  <2>3. /\ a.timer \in Keys(Paths, Ids) /\ b.timer \in Keys(Paths, Ids)
        /\ a.start \in [Ids -> Keys(Paths, Int)] /\ b.start \in [Ids -> Keys(Paths, Int)]
        /\ a.paused \in [Ids -> Keys(Paths, BOOLEAN)] /\ b.paused \in [Ids -> Keys(Paths, BOOLEAN)]
        /\ a.elapsed \in [Ids -> Keys(Paths, Nat)] /\ b.elapsed \in [Ids -> Keys(Paths, Nat)]
    BY <1>1 DEF CoreStates, a, b
  <2>4. /\ both.timer = Merge(a.timer, b.timer) /\ both.start = MergeFields(a.start, b.start)
        /\ both.paused = MergeFields(a.paused, b.paused)
        /\ both.elapsed = MergeFields(a.elapsed, b.elapsed)
        /\ both = [timer |-> both.timer, start |-> both.start, paused |-> both.paused,
                   elapsed |-> both.elapsed]
    BY <2>1
  <2>5. both.timer \in Keys(Paths, Ids) /\ both.timer.items = a.timer.items \cup b.timer.items
    BY <2>3, <2>4, MergeType
  <2>6. /\ both.start \in [Ids -> Keys(Paths, Int)]
        /\ \A i \in Ids : both.start[i] = Merge(a.start[i], b.start[i])
    BY <2>3, <2>4, MergeFieldsType
  <2>7. /\ both.paused \in [Ids -> Keys(Paths, BOOLEAN)]
        /\ \A i \in Ids : both.paused[i] = Merge(a.paused[i], b.paused[i])
    BY <2>3, <2>4, MergeFieldsType
  <2>8. /\ both.elapsed \in [Ids -> Keys(Paths, Nat)]
        /\ \A i \in Ids : both.elapsed[i] = Merge(a.elapsed[i], b.elapsed[i])
    BY <2>3, <2>4, MergeFieldsType
  <2>9. both \in CoreStates
    BY <2>4, <2>5, <2>6, <2>7, <2>8 DEF CoreStates
  <2>10. new \in DocStates /\ new.core = both /\ new.entries = x.entries
    BY <1>1, <2>2, <2>9 DEF DocStates
  <2>11. Formed(new, made)
    <3>1. ASSUME NEW i \in Ids, i > made
          PROVE  /\ both.start[i] = EmptyKey /\ both.paused[i] = EmptyKey
                 /\ both.elapsed[i] = EmptyKey
      <4>1. /\ a.start[i] = EmptyKey /\ a.paused[i] = EmptyKey /\ a.elapsed[i] = EmptyKey
            /\ b.start[i] = EmptyKey /\ b.paused[i] = EmptyKey /\ b.elapsed[i] = EmptyKey
        BY <3>1 DEF Formed, a, b
      <4>2. Merge(EmptyKey, EmptyKey) = EmptyKey
        BY DEF Merge, EmptyKey
      <4> QED BY <2>6, <2>7, <2>8, <4>1, <4>2
    <3>2. ASSUME NEW it \in both.timer.items
          PROVE  /\ both.start[it.val].items # {} /\ both.paused[it.val].items # {}
                 /\ both.elapsed[it.val].items # {}
      <4>1. it.val \in Ids
        BY <2>5, <3>2 DEF Keys
      <4>2. \/ /\ a.start[it.val].items # {} /\ a.paused[it.val].items # {}
               /\ a.elapsed[it.val].items # {}
            \/ /\ b.start[it.val].items # {} /\ b.paused[it.val].items # {}
               /\ b.elapsed[it.val].items # {}
        BY <2>5, <3>2 DEF Formed, a, b
      <4>3. ASSUME NEW j \in Ids
            PROVE  /\ both.start[j].items = a.start[j].items \cup b.start[j].items
                   /\ both.paused[j].items = a.paused[j].items \cup b.paused[j].items
                   /\ both.elapsed[j].items = a.elapsed[j].items \cup b.elapsed[j].items
        <5>1. \A f, g : Merge(f, g).items = f.items \cup g.items
          BY DEF Merge
        <5> QED BY <2>6, <2>7, <2>8, <5>1
      <4> QED BY <4>1, <4>2, <4>3
    <3> QED BY <2>10, <3>1, <3>2 DEF Formed
  <2>12. ASSUME NEW s \in Slots
         PROVE  KeyAt(new, s) =
                  IF DocOf(s) = n THEN Merge(KeyAt(x, s), KeyAt(y, s)) ELSE KeyAt(x, s)
    <3>1. CASE s = <<"timer", 0>>
      BY <1>3, <2>4, <2>10, <3>1 DEF KeyAt, DocOf, a, b
    <3>2. CASE s[2] \in Ids /\ s[1] \in {"start", "paused", "elapsed"}
      BY <1>3, <2>6, <2>7, <2>8, <2>10, <3>2 DEF KeyAt, DocOf, a, b
    <3>3. CASE s[2] \in Ids /\ s[1] = "entry"
      BY <1>3, <2>10, <3>3 DEF KeyAt, DocOf
    <3> QED BY <3>1, <3>2, <3>3, SlotKinds
  <2> QED BY <1>3, <2>10, <2>11, <2>12 DEF Exchanged
<1> QED
  BY <1>2, <1>3 DEF Docs

\* The provider's copy is typed, sound and well formed too.
LEMMA CloudType ==
  ASSUME DataInv
  PROVE  cloud \in DocStates /\ Formed(cloud, born) /\ \A s \in Slots : Sound(KeyAt(cloud, s))
BY DEF DataInv, CopiesOf, KeysFit

\* A device and the provider exchange a document.
LEMMA SyncType ==
  ASSUME TypeInv, NEW d \in Devices, NEW n \in Docs, Exchange(d, n)
  PROVE  /\ TypeInv' /\ UNCHANGED <<disk, calls, waived, pausedAt>>
         /\ \A e \in Devices : e # d => doc'[e] = doc[e]
         /\ n = "core" =>
              /\ doc'[d].entries = doc[d].entries /\ cloud'.entries = cloud.entries
              /\ doc'[d].core.timer = Merge(doc[d].core.timer, cloud.core.timer)
              /\ cloud'.core.timer = Merge(doc[d].core.timer, cloud.core.timer)
         /\ n = "entries" =>
              /\ doc'[d].core = doc[d].core /\ cloud'.core = cloud.core
              /\ \A i \in Ids :
                   /\ doc'[d].entries[i] = Merge(doc[d].entries[i], cloud.entries[i])
                   /\ cloud'.entries[i] = Merge(doc[d].entries[i], cloud.entries[i])
<1> DEFINE both == MergeDoc(n, doc[d][n], cloud[n])
           swap == MergeDoc(n, cloud[n], doc[d][n])
           new == [doc[d] EXCEPT ![n] = both]
           stored == [cloud EXCEPT ![n] = both]
<1>1. /\ doc' = [doc EXCEPT ![d][n] = both] /\ cloud' = stored
      /\ pass' = [pass EXCEPT ![d] = @ \cup {n}]
      /\ UNCHANGED <<disk, client, calls, clock, born, given, ghosts>>
      /\ UNCHANGED <<disk, client, drawn, calls, waived, pausedAt>> /\ born' = born
  BY DEF Exchange, ghosts
<1>2. /\ DataInv /\ doc \in [Devices -> DocStates] /\ doc[d] \in DocStates /\ cloud \in DocStates
      /\ Formed(doc[d], born) /\ Formed(cloud, born)
      /\ KeysFit(doc, disk, cloud, client, drawn)
  BY DeviceType, CloudType DEF TypeInv, DataInv
<1>3. doc' = [doc EXCEPT ![d] = new]
  BY <1>1
<1>4. both = swap
  <2>1. \A a, b : Merge(a, b) = Merge(b, a)
    BY DEF Merge
  <2>2. \A f, g : MergeFields(f, g) = MergeFields(g, f)
    BY <2>1 DEF MergeFields
  <2> QED BY <2>1, <2>2 DEF MergeDoc
<1> HIDE DEF both, swap
<1>5. /\ new \in DocStates /\ Formed(new, born)
      /\ n = "core" => new.entries = doc[d].entries /\ new.core = both
      /\ n = "entries" => new.core = doc[d].core /\ new.entries = both
      /\ \A s \in Slots : KeyAt(new, s) =
           IF DocOf(s) = n THEN Merge(KeyAt(doc[d], s), KeyAt(cloud, s)) ELSE KeyAt(doc[d], s)
  <2>1. both = MergeDoc(n, doc[d][n], cloud[n])
    BY DEF both
  <2>2. Replaced(doc[d], n, both, new)
    BY <1>2, ReplacedType
  <2> HIDE DEF new
  <2>3. new \in DocStates /\ Formed(new, born) /\ Exchanged(doc[d], cloud, n, both, new)
    BY <1>2, <2>1, <2>2, ExchangeType
  <2> QED BY <2>3 DEF Exchanged
<1>6. /\ stored \in DocStates /\ Formed(stored, born)
      /\ n = "core" => stored.entries = cloud.entries /\ stored.core = both
      /\ n = "entries" => stored.core = cloud.core /\ stored.entries = both
      /\ \A s \in Slots : KeyAt(stored, s) =
           IF DocOf(s) = n THEN Merge(KeyAt(cloud, s), KeyAt(doc[d], s)) ELSE KeyAt(cloud, s)
  <2>1. both = MergeDoc(n, cloud[n], doc[d][n])
    BY <1>4 DEF swap
  <2>2. Replaced(cloud, n, both, stored)
    BY <1>2, ReplacedType
  <2> HIDE DEF stored
  <2>3. stored \in DocStates /\ Formed(stored, born) /\ Exchanged(cloud, doc[d], n, both, stored)
    BY <1>2, <2>1, <2>2, ExchangeType
  <2> QED BY <2>3 DEF Exchanged
<1> HIDE DEF new, stored
<1>7. ASSUME NEW s \in Slots
      PROVE  \/ KeyAt(new, s) = KeyAt(doc[d], s) /\ KeyAt(stored, s) = KeyAt(cloud, s)
             \/ /\ KeyAt(new, s) = Merge(KeyAt(doc[d], s), KeyAt(cloud, s))
                /\ KeyAt(stored, s) = KeyAt(new, s)
  <2>1. Merge(KeyAt(cloud, s), KeyAt(doc[d], s)) = Merge(KeyAt(doc[d], s), KeyAt(cloud, s))
    BY DEF Merge
  <2> QED BY <1>5, <1>6, <2>1
<1>8. KeysFit([doc EXCEPT ![d] = new], disk, stored, client, drawn)
  BY <1>2, <1>7, ExchangeFits
<1>9. KeysFit(doc', disk', cloud', client', drawn')
  BY <1>1, <1>3, <1>8
<1>10. /\ doc' \in [Devices -> DocStates] /\ doc'[d] = new
       /\ \A e \in Devices : e # d => doc'[e] = doc[e]
  BY <1>2, <1>3, <1>5
<1>11. \A x \in CopiesOf(doc', disk', cloud') : Formed(x, born')
  <2>1. \A x \in CopiesOf(doc', disk', cloud') :
          x = new \/ x = stored \/ x \in CopiesOf(doc, disk, cloud)
    BY <1>1, <1>10 DEF CopiesOf
  <2> QED BY <1>1, <1>2, <1>5, <1>6, <2>1 DEF DataInv
<1>12. DataInv'
  BY <1>1, <1>2, <1>6, <1>9, <1>10, <1>11 DEF DataInv
<1>13. RestOK'
  <2>1. pass' \in [Devices -> SUBSET Docs]
    BY <1>1 DEF TypeInv, RestOK
  <2> QED BY <1>1, <2>1 DEF TypeInv, RestOK, ghosts, CallOK, SeenOK
<1>14. n = "core" => both.timer = Merge(doc[d].core.timer, cloud.core.timer)
  BY DEF both, MergeDoc
<1>15. n = "entries" => \A i \in Ids : both[i] = Merge(doc[d].entries[i], cloud.entries[i])
  BY DEF both, MergeDoc, MergeFields
<1> QED
  BY <1>1, <1>5, <1>6, <1>10, <1>12, <1>13, <1>14, <1>15 DEF TypeInv

\* A device writes to both documents.
LEMMA PairStep ==
  ASSUME DataInv, NEW d \in Devices, NEW core \in CoreStates,
         NEW entries \in [Ids -> Keys(Paths, Int \X Int)],
         doc' = [doc EXCEPT ![d] = [core |-> core, entries |-> entries]],
         Wrote(doc[d].core.timer, core.timer, client[d].core),
         \A i \in Ids : /\ Wrote(doc[d].core.start[i], core.start[i], client[d].core)
                        /\ Wrote(doc[d].core.paused[i], core.paused[i], client[d].core)
                        /\ Wrote(doc[d].core.elapsed[i], core.elapsed[i], client[d].core)
                        /\ Wrote(doc[d].entries[i], entries[i], client[d].entries),
         born \in Nat, born' \in Nat, born <= born',
         Formed([core |-> core, entries |-> entries], born'),
         UNCHANGED <<disk, cloud, client, drawn>>
  PROVE  /\ DataInv' /\ doc'[d].core = core /\ doc'[d].entries = entries
         /\ \A e \in Devices : e # d => doc'[e] = doc[e]
<1> DEFINE new == [core |-> core, entries |-> entries]
<1>1. new \in DocStates /\ new.core = core /\ new.entries = entries
  BY DEF DocStates
<1> HIDE DEF new
<1>2. doc' = [doc EXCEPT ![d] = new] /\ Formed(new, born')
  BY DEF new
<1>3. ASSUME NEW s \in Slots
      PROVE  Wrote(KeyAt(doc[d], s), KeyAt(new, s), client[d][DocOf(s)])
  <2>1. CASE s = <<"timer", 0>>
    BY <1>1, <2>1 DEF KeyAt, DocOf
  <2>2. CASE s[2] \in Ids /\ s[1] \in {"start", "paused", "elapsed"}
    BY <1>1, <2>2 DEF KeyAt, DocOf
  <2>3. CASE s[2] \in Ids /\ s[1] = "entry"
    BY <1>1, <2>3 DEF KeyAt, DocOf
  <2> QED
    BY <2>1, <2>2, <2>3, SlotKinds
<1>4. DataInv'
  BY <1>1, <1>2, <1>3, WriteStep
<1>5. doc'[d] = new /\ \A e \in Devices : e # d => doc'[e] = doc[e]
  BY <1>2 DEF DataInv
<1> QED
  BY <1>1, <1>4, <1>5

\* The entries of a device are sound keys.
LEMMA EntryType ==
  ASSUME DataInv, NEW d \in Devices, NEW i \in Ids
  PROVE  /\ doc[d].entries \in [Ids -> Keys(Paths, Int \X Int)]
         /\ doc[d].entries[i] \in Keys(Paths, Int \X Int) /\ Sound(doc[d].entries[i])
<1>1. <<"entry", i>> \in Slots /\ KeyAt(doc[d], <<"entry", i>>) = doc[d].entries[i]
  BY DEF Slots, KeyAt
<1> QED
  BY <1>1, DeviceType DEF DocStates

\* A device writes one entry, and nothing else.
LEMMA EntryStep ==
  ASSUME DataInv, NEW d \in Devices, NEW i \in Ids, NEW key \in Keys(Paths, Int \X Int),
         doc' = [doc EXCEPT ![d].entries[i] = key],
         Wrote(doc[d].entries[i], key, client[d].entries),
         born \in Nat, born' \in Nat, born <= born',
         UNCHANGED <<disk, cloud, client, drawn>>
  PROVE  /\ DataInv' /\ doc'[d].core = doc[d].core /\ doc'[d].entries[i] = key
         /\ \A j \in Ids : j # i => doc'[d].entries[j] = doc[d].entries[j]
         /\ \A e \in Devices : e # d => doc'[e] = doc[e]
<1> DEFINE core == doc[d].core
           entries == [doc[d].entries EXCEPT ![i] = key]
<1>1. /\ doc[d].entries \in [Ids -> Keys(Paths, Int \X Int)] /\ doc[d] \in DocStates
      /\ doc \in [Devices -> DocStates] /\ Formed(doc[d], born)
  BY EntryType, DeviceType DEF DataInv
<1>2. core \in CoreStates /\ doc[d] = [core |-> core, entries |-> doc[d].entries]
  BY <1>1 DEF DocStates
<1>3. /\ entries \in [Ids -> Keys(Paths, Int \X Int)] /\ entries[i] = key
      /\ \A j \in Ids : j # i => entries[j] = doc[d].entries[j]
  BY <1>1
<1>4. doc' = [doc EXCEPT ![d] = [core |-> core, entries |-> entries]]
  <2>1. [doc[d] EXCEPT !.entries = entries] = [core |-> core, entries |-> entries]
    <3> HIDE DEF core, entries
    <3> QED BY <1>2
  <2>2. doc' = [doc EXCEPT ![d] = [doc[d] EXCEPT !.entries = entries]]
    OBVIOUS
  <2> QED BY <2>1, <2>2
<1>5. Formed([core |-> core, entries |-> entries], born')
  BY <1>1 DEF Formed, Ids
<1> HIDE DEF core, entries
<1>6. \A x, c : Wrote(x, x, c)
  BY DEF Wrote
<1>7. /\ Wrote(doc[d].core.timer, core.timer, client[d].core)
      /\ \A j \in Ids : /\ Wrote(doc[d].core.start[j], core.start[j], client[d].core)
                        /\ Wrote(doc[d].core.paused[j], core.paused[j], client[d].core)
                        /\ Wrote(doc[d].core.elapsed[j], core.elapsed[j], client[d].core)
                        /\ Wrote(doc[d].entries[j], entries[j], client[d].entries)
  BY <1>3, <1>6 DEF core
<1>8. /\ DataInv' /\ doc'[d].core = core /\ doc'[d].entries = entries
      /\ \A e \in Devices : e # d => doc'[e] = doc[e]
  BY <1>2, <1>3, <1>4, <1>5, <1>7, PairStep
<1> QED
  BY <1>3, <1>8 DEF core

\* The user deletes an entry.
LEMMA DeleteEntryType ==
  ASSUME TypeInv, NEW d \in Devices, NEW i \in Ids, DeleteEntry(d, i)
  PROVE  /\ TypeInv' /\ UNCHANGED <<disk, cloud, calls, pausedAt>>
         /\ doc'[d].core = doc[d].core /\ doc'[d].entries[i] = Delete(doc[d].entries[i])
         /\ \A j \in Ids : j # i => doc'[d].entries[j] = doc[d].entries[j]
         /\ \A e \in Devices : e # d => doc'[e] = doc[e]
<1> DEFINE key == Delete(doc[d].entries[i])
<1>1. /\ Command /\ doc' = [doc EXCEPT ![d].entries[i] = key] /\ waived' = waived \cup {i}
      /\ UNCHANGED <<disk, cloud, client, drawn, calls, pass, clock, born, crashes, pausedAt>>
      /\ UNCHANGED <<disk, cloud, client, drawn>>
      /\ DataInv /\ born \in Nat /\ born' \in Nat /\ born <= born'
  BY DEF DeleteEntry, TypeInv, RestOK
<1>2. key \in Keys(Paths, Int \X Int)
  BY <1>1, EntryType, DeleteType
<1>3. Wrote(doc[d].entries[i], key, client[d].entries)
  BY DEF Wrote
<1> HIDE DEF key
<1>4. /\ DataInv' /\ doc'[d].core = doc[d].core /\ doc'[d].entries[i] = key
      /\ \A j \in Ids : j # i => doc'[d].entries[j] = doc[d].entries[j]
      /\ \A e \in Devices : e # d => doc'[e] = doc[e]
  BY <1>1, <1>2, <1>3, EntryStep
<1>5. RestOK'
  BY <1>1, BoundsAssumption DEF TypeInv, RestOK, Command, CallOK, SeenOK
<1> QED
  BY <1>1, <1>4, <1>5 DEF TypeInv, key

\* A manual entry is written after it waited, if it overlaps none it saw.
LEMMA FinishManualType ==
  ASSUME TypeInv, NEW c \in calls, FinishManual(c)
  PROVE  /\ TypeInv' /\ c.device \in Devices /\ c.kind = "manual"
         /\ calls' = calls \ {c} /\ UNCHANGED <<disk, cloud, waived, pausedAt>>
         /\ \/ UNCHANGED doc
            \/ /\ Free(c.span, c.seen)
               /\ doc'[c.device].core = doc[c.device].core
               /\ \E i \in Ids :
                    /\ Has(doc'[c.device].entries[i])
                    /\ Value(doc'[c.device].entries[i]) = c.span
                    /\ doc[c.device].entries[i].items \subseteq doc'[c.device].entries[i].items
                    /\ \A j \in Ids : j # i => doc'[c.device].entries[j] = doc[c.device].entries[j]
               /\ \A e \in Devices : e # c.device => doc'[e] = doc[e]
<1> DEFINE d == c.device
           i == born + 1
           key == Set(doc[d].entries[i], client[d].entries, c.span)
<1>1. /\ c.kind = "manual" /\ calls' = calls \ {c}
      /\ UNCHANGED <<disk, cloud, client, pass, clock, given, ghosts>>
      /\ UNCHANGED <<disk, cloud, client, drawn, waived, pausedAt>>
  BY DEF FinishManual, Return, ghosts
<1>2. d \in Devices /\ c.span \in Int \X Int /\ DataInv /\ born \in 0..MaxIds /\ born \in Nat
  BY <1>1, SpanAssumption, BoundsAssumption DEF TypeInv, RestOK, CallOK
<1>3. CASE UNCHANGED <<doc, born>>
  <2>1. DataInv'
    BY <1>1, <1>2, <1>3, StayStep
  <2>2. RestOK'
    BY <1>1, <1>3 DEF TypeInv, RestOK, ghosts, CallOK, SeenOK
  <2> QED BY <1>1, <1>2, <1>3, <2>1, <2>2 DEF TypeInv
<1>4. CASE /\ Free(c.span, c.seen) /\ born < MaxIds /\ born' = born + 1
           /\ doc' = [doc EXCEPT ![d].entries[i] = key]
  <2>1. i \in Ids /\ born' \in Nat /\ born <= born' /\ born' \in 0..MaxIds
    BY <1>2, <1>4, BoundsAssumption DEF Ids
  <2>2. client[d].entries \in Clients
    <3>1. client[d] \in [Docs -> Clients] /\ "entries" \in Docs
      BY <1>2 DEF DataInv, SessionsFit, Docs
    <3> QED BY <3>1
  <2>3. /\ doc[d].entries[i] \in Keys(Paths, Int \X Int) /\ Sound(doc[d].entries[i])
    BY <1>2, <2>1, EntryType
  <2>4. /\ key \in Keys(Paths, Int \X Int) /\ Has(key) /\ Value(key) = c.span
        /\ doc[d].entries[i].items \subseteq key.items
    <3> HIDE DEF d, i
    <3> QED BY <1>2, <2>2, <2>3, SetType
  <2>5. Wrote(doc[d].entries[i], key, client[d].entries)
    BY DEF Wrote
  <2> HIDE DEF d, i, key
  <2>6. /\ DataInv' /\ doc'[d].core = doc[d].core /\ doc'[d].entries[i] = key
        /\ \A j \in Ids : j # i => doc'[d].entries[j] = doc[d].entries[j]
        /\ \A e \in Devices : e # d => doc'[e] = doc[e]
    BY <1>1, <1>2, <1>4, <2>1, <2>4, <2>5, EntryStep
  <2>7. RestOK'
    BY <1>1, <2>1 DEF TypeInv, RestOK, ghosts, CallOK, SeenOK
  <2>8. \E k \in Ids :
          /\ Has(doc'[d].entries[k]) /\ Value(doc'[d].entries[k]) = c.span
          /\ doc[d].entries[k].items \subseteq doc'[d].entries[k].items
          /\ \A j \in Ids : j # k => doc'[d].entries[j] = doc[d].entries[j]
    BY <2>1, <2>4, <2>6
  <2> QED BY <1>1, <1>2, <1>4, <2>6, <2>7, <2>8 DEF TypeInv, d
<1> QED
  BY <1>3, <1>4 DEF FinishManual

\* A stop that waited writes its entry, unless it saw one of this timer, and
\* deletes the timer.
LEMMA FinishStopType ==
  ASSUME TypeInv, NEW c \in calls, FinishStop(c)
  PROVE  /\ TypeInv' /\ c.device \in Devices /\ c.kind = "stop"
         /\ calls' = calls \ {c} /\ UNCHANGED <<disk, cloud, waived, pausedAt>>
         /\ \/ UNCHANGED doc
            \/ LET d == c.device IN
                 /\ Running(d) /\ ~Running(d)' /\ Timer(d).inst \in Ids
                 /\ doc'[d].core.timer = Delete(doc[d].core.timer)
                 /\ \A e \in Devices : e # d => doc'[e] = doc[e]
                 /\ \/ /\ StoppedEntry(Timer(d), c.seen) /\ doc'[d].entries = doc[d].entries
                    \/ /\ Free(StopSpan(Timer(d)), c.seen)
                       /\ Has(doc'[d].entries[Timer(d).inst])
                       /\ Value(doc'[d].entries[Timer(d).inst]) = StopSpan(Timer(d))
                       /\ doc[d].entries[Timer(d).inst].items \subseteq
                            doc'[d].entries[Timer(d).inst].items
                       /\ \A j \in Ids : j # Timer(d).inst =>
                            doc'[d].entries[j] = doc[d].entries[j]
<1> DEFINE d == c.device
           t == Timer(d)
           recovered == StoppedEntry(t, c.seen)
           key == IF recovered THEN doc[d].entries[t.inst]
                  ELSE Set(doc[d].entries[t.inst], client[d].entries, StopSpan(t))
           core == [doc[d].core EXCEPT !.timer = Delete(@)]
           entries == [doc[d].entries EXCEPT ![t.inst] = key]
<1>1. /\ c.kind = "stop" /\ calls' = calls \ {c}
      /\ UNCHANGED <<disk, cloud, client, pass, clock, born, given, ghosts>>
      /\ UNCHANGED <<disk, cloud, client, drawn, waived, pausedAt>> /\ born' = born
  BY DEF FinishStop, Return, ghosts
<1>2. d \in Devices /\ DataInv /\ born \in Nat /\ clock \in Int
  BY <1>1, BoundsAssumption DEF TypeInv, RestOK, CallOK
<1>3. RestOK'
  BY <1>1 DEF TypeInv, RestOK, ghosts, CallOK, SeenOK
<1>4. CASE UNCHANGED doc
  <2>1. DataInv'
    BY <1>1, <1>2, <1>4, StayStep
  <2> QED BY <1>1, <1>2, <1>3, <1>4, <2>1 DEF TypeInv
<1>5. CASE /\ SameTimer(c) /\ (recovered \/ Free(StopSpan(t), c.seen))
           /\ doc' = [doc EXCEPT ![d].entries[t.inst] = key, ![d].core.timer = Delete(@)]
  <2>1. Running(d) /\ t \in TimerRecords /\ t.inst \in Ids
    <3>1. Running(d)
      BY <1>5 DEF SameTimer
    <3> QED BY <1>2, <3>1, DeviceType DEF TimerRecords
  <2>2. /\ doc[d].entries \in [Ids -> Keys(Paths, Int \X Int)]
        /\ doc[d].entries[t.inst] \in Keys(Paths, Int \X Int) /\ Sound(doc[d].entries[t.inst])
    BY <1>2, <2>1, EntryType
  <2>3. /\ doc[d] \in DocStates /\ doc \in [Devices -> DocStates] /\ Formed(doc[d], born)
    BY <1>2, DeviceType DEF DataInv
  <2>4. StopSpan(t) \in Int \X Int
    <3> HIDE DEF t
    <3> QED BY <1>2, <2>1 DEF StopSpan, StopEnd, PauseEnd, Later, TimerRecords
  <2>5. client[d].entries \in Clients
    <3>1. client[d] \in [Docs -> Clients] /\ "entries" \in Docs
      BY <1>2 DEF DataInv, SessionsFit, Docs
    <3> QED BY <3>1
  <2>6. /\ key \in Keys(Paths, Int \X Int) /\ doc[d].entries[t.inst].items \subseteq key.items
        /\ ~recovered => Has(key) /\ Value(key) = StopSpan(t)
        /\ recovered => key = doc[d].entries[t.inst]
    <3> HIDE DEF d, t, recovered
    <3>1. CASE recovered
      BY <2>2, <3>1
    <3>2. CASE ~recovered
      <4>1. key = Set(doc[d].entries[t.inst], client[d].entries, StopSpan(t))
        BY <3>2
      <4> HIDE DEF key
      <4> QED BY <2>2, <2>4, <2>5, <3>2, <4>1, SetType
    <3> QED BY <3>1, <3>2
  <2>7. Wrote(doc[d].entries[t.inst], key, client[d].entries)
    BY DEF Wrote
  <2>8. /\ core \in CoreStates /\ core.timer = Delete(doc[d].core.timer)
        /\ core.start = doc[d].core.start /\ core.paused = doc[d].core.paused
        /\ core.elapsed = doc[d].core.elapsed
        /\ core.timer.items = doc[d].core.timer.items
        /\ Sound(doc[d].core.timer) /\ doc[d].core.timer \in Keys(Paths, Ids)
    <3>1. core = [doc[d].core EXCEPT !.timer = Delete(@)]
      OBVIOUS
    <3> HIDE DEF core, d
    <3> QED BY <1>2, <3>1, DropType
  <2> HIDE DEF key
  <2>9. /\ entries \in [Ids -> Keys(Paths, Int \X Int)] /\ entries[t.inst] = key
        /\ \A j \in Ids : j # t.inst => entries[j] = doc[d].entries[j]
    <3> HIDE DEF t, d
    <3> QED BY <2>1, <2>2, <2>6
  <2>10. doc' = [doc EXCEPT ![d] = [core |-> core, entries |-> entries]]
    <3>1. doc' = [doc EXCEPT ![d] = [[doc[d] EXCEPT !.entries = entries] EXCEPT !.core = core]]
      <4> HIDE DEF d, t
      <4> QED BY <1>2, <1>5, <2>3 DEF DocStates
    <3>2. [[doc[d] EXCEPT !.entries = entries] EXCEPT !.core = core]
            = [core |-> core, entries |-> entries]
      <4> HIDE DEF core, entries, d
      <4>1. doc[d] = [core |-> doc[d].core, entries |-> doc[d].entries]
        BY <2>3 DEF DocStates
      <4> DEFINE mid == [doc[d] EXCEPT !.entries = entries]
      <4>2. mid = [core |-> doc[d].core, entries |-> entries]
        BY <4>1
      <4> HIDE DEF mid
      <4>3. [mid EXCEPT !.core = core] = [core |-> core, entries |-> entries]
        BY <4>2
      <4> QED BY <4>3 DEF mid
    <3> QED BY <3>1, <3>2
  <2>11. Formed([core |-> core, entries |-> entries], born')
    <3> HIDE DEF core, entries, d
    <3> QED BY <1>1, <2>3, <2>8 DEF Formed
  <2> HIDE DEF core, entries, recovered, t, d
  <2>12. \A x, k : Wrote(x, x, k)
    BY DEF Wrote
  <2>13. /\ Wrote(doc[d].core.timer, core.timer, client[d].core)
         /\ \A j \in Ids : /\ Wrote(doc[d].core.start[j], core.start[j], client[d].core)
                           /\ Wrote(doc[d].core.paused[j], core.paused[j], client[d].core)
                           /\ Wrote(doc[d].core.elapsed[j], core.elapsed[j], client[d].core)
                           /\ Wrote(doc[d].entries[j], entries[j], client[d].entries)
    <3>1. Wrote(doc[d].core.timer, core.timer, client[d].core)
      BY <2>8 DEF Wrote
    <3> QED BY <2>7, <2>8, <2>9, <2>12, <3>1
  <2>14. /\ DataInv' /\ doc'[d].core = core /\ doc'[d].entries = entries
         /\ \A e \in Devices : e # d => doc'[e] = doc[e]
    <3>1. born \in Nat /\ born' \in Nat /\ born <= born'
      BY <1>1, <1>2
    <3>2. UNCHANGED <<disk, cloud, client, drawn>>
      BY <1>1
    <3>3. core \in CoreStates /\ entries \in [Ids -> Keys(Paths, Int \X Int)]
      BY <2>8, <2>9
    <3> QED BY <1>2, <2>10, <2>11, <2>13, <3>1, <3>2, <3>3, PairStep
  <2>15. ~Running(d)'
    BY <2>8, <2>14, DeleteType DEF Running
  <2>16. CASE recovered
    <3>1. entries = doc[d].entries
      BY <2>2, <2>6, <2>9, <2>16
    <3> QED
      BY <1>1, <1>2, <1>3, <2>1, <2>8, <2>14, <2>15, <2>16, <3>1 DEF TypeInv, d, t, recovered
  <2>17. CASE ~recovered
    BY <1>1, <1>2, <1>3, <1>5, <2>1, <2>6, <2>8, <2>9, <2>14, <2>15, <2>17 DEF TypeInv, d, t
  <2> QED BY <2>16, <2>17
<1> QED
  BY <1>4, <1>5 DEF FinishStop

\* A timer starts.
LEMMA StartType ==
  ASSUME TypeInv, NEW d \in Devices, Start(d)
  PROVE  /\ TypeInv' /\ UNCHANGED <<disk, cloud, calls, waived, pausedAt>>
         /\ doc'[d].entries = doc[d].entries
         /\ \A e \in Devices : e # d => doc'[e] = doc[e]
         /\ doc'[d].core.timer.dead = doc[d].core.timer.dead
         /\ \A it \in doc'[d].core.timer.items :
              it \in doc[d].core.timer.items \/ it.path \notin doc[d].core.timer.dead
         /\ Running(d)' /\ ~Timer(d)'.paused
<1> DEFINE me == client[d].core
           c == doc[d].core
           i == born + 1
           shown == Set(c.timer, me, i)
           to == Set(EmptyKey, me, WholeSecond(clock))
           held == Set(EmptyKey, me, FALSE)
           spent == Set(EmptyKey, me, 0)
           core == [c EXCEPT !.timer = shown, !.start[i] = to, !.paused[i] = held,
                             !.elapsed[i] = spent]
<1>1. /\ CoreOf(d, core) /\ Command /\ born < MaxIds /\ born' = born + 1
      /\ UNCHANGED <<disk, cloud, client, calls, pass, clock, ghosts>>
      /\ UNCHANGED <<disk, cloud, client, drawn, calls, waived, pausedAt>>
  BY DEF Start, ghosts
<1>2. /\ DataInv /\ born \in Nat /\ born' \in Nat /\ born <= born' /\ i \in Ids /\ clock \in Nat
      /\ born' \in 0..MaxIds /\ i > born
  BY <1>1, BoundsAssumption DEF TypeInv, RestOK, Ids
<1>3. /\ doc[d] \in DocStates /\ c \in CoreStates /\ Formed(doc[d], born)
      /\ c.timer \in Keys(Paths, Ids)
  BY <1>2, DeviceType DEF DocStates, CoreStates
<1>4. Sound(c.timer)
  <2>1. <<"timer", 0>> \in Slots /\ KeyAt(doc[d], <<"timer", 0>>) = c.timer
    BY DEF Slots, KeyAt
  <2> QED BY <1>2, <2>1, DeviceType
<1>5. me \in Clients /\ me \in Nat
  <2>1. client[d] \in [Docs -> Clients] /\ "core" \in Docs
    BY <1>2 DEF DataInv, SessionsFit, Docs
  <2> QED BY <2>1 DEF Clients
<1>6. WholeSecond(clock) \in Int
  BY <1>2 DEF WholeSecond
<1>7. c.start[i] = EmptyKey /\ c.paused[i] = EmptyKey /\ c.elapsed[i] = EmptyKey
  BY <1>2, <1>3 DEF Formed
<1>8. /\ EmptyKey \in Keys(Paths, Int) /\ EmptyKey \in Keys(Paths, BOOLEAN)
      /\ EmptyKey \in Keys(Paths, Nat) /\ Sound(EmptyKey)
  BY DEF EmptyKey, Keys, Sound
<1> HIDE DEF c, me, i
<1>9. to \in Keys(Paths, Int) /\ to.items # {}
  BY <1>5, <1>6, <1>8, SetType
<1>10. held \in Keys(Paths, BOOLEAN) /\ held.items # {} /\ Value(held) = FALSE
  <2>1. FALSE \in BOOLEAN
    OBVIOUS
  <2> QED BY <1>5, <1>8, <2>1, SetType
<1>11. spent \in Keys(Paths, Nat) /\ spent.items # {}
  BY <1>5, <1>8, SetType
<1>12. /\ shown \in Keys(Paths, Ids) /\ Has(shown) /\ Value(shown) = i
       /\ c.timer.items \subseteq shown.items
  BY <1>2, <1>3, <1>4, <1>5, SetType
<1>13. /\ shown.dead = c.timer.dead
       /\ \A it \in shown.items :
            it \in c.timer.items \/ (it.val = i /\ it.path \notin c.timer.dead)
  <2>1. c.timer \in Keys(Seq(Nat), Ids)
    BY <1>3, PathsAreNumbers DEF Keys
  <2> DEFINE key == c.timer
  <2>1a. shown = Set(key, me, i) /\ key \in Keys(Seq(Nat), Ids) /\ Sound(key)
    BY <1>4, <2>1
  <2> HIDE DEF shown, key
  <2>1b. \E w : /\ w = [path |-> Append(LastPath(key), me), val |-> i]
                /\ Writer(w) = me /\ shown.items = key.items \cup {w} /\ shown.dead = key.dead
                /\ \A o \in key.items : Before(o.path, w.path) /\ o.path # w.path
    BY <1>5, <2>1a, SetItem
  <2>2. PICK w : /\ w = [path |-> Append(LastPath(c.timer), me), val |-> i]
                 /\ shown.items = c.timer.items \cup {w} /\ shown.dead = c.timer.dead
                 /\ \A o \in c.timer.items : o.path # w.path
    BY <2>1b DEF key
  <2>3. w.path \notin c.timer.dead
    BY <1>4, <2>2 DEF Sound
  <2>4. w.val = i
    BY <2>2
  <2> QED
    <3> HIDE DEF shown
    <3>1. shown.items = c.timer.items \cup {w} /\ shown.dead = c.timer.dead
      BY <2>2
    <3> QED BY <2>3, <2>4, <3>1
<1>14. /\ Wrote(c.timer, shown, me) /\ Wrote(EmptyKey, to, me) /\ Wrote(EmptyKey, held, me)
       /\ Wrote(EmptyKey, spent, me)
  BY DEF Wrote
<1>15. core = [c EXCEPT !.timer = shown, !.start[i] = to, !.paused[i] = held, !.elapsed[i] = spent]
  OBVIOUS
<1> HIDE DEF core, shown, to, held, spent
<1> DEFINE starts == [c.start EXCEPT ![i] = to]
           pauses == [c.paused EXCEPT ![i] = held]
           spends == [c.elapsed EXCEPT ![i] = spent]
<1>16. /\ starts \in [Ids -> Keys(Paths, Int)] /\ pauses \in [Ids -> Keys(Paths, BOOLEAN)]
       /\ spends \in [Ids -> Keys(Paths, Nat)]
  BY <1>2, <1>3, <1>9, <1>10, <1>11 DEF CoreStates
<1>17. /\ starts[i] = to /\ pauses[i] = held /\ spends[i] = spent
       /\ \A j \in Ids : j # i => /\ starts[j] = c.start[j] /\ pauses[j] = c.paused[j]
                                  /\ spends[j] = c.elapsed[j]
  BY <1>2, <1>3 DEF CoreStates
<1>18. /\ core.timer = shown /\ core.start = starts /\ core.paused = pauses
       /\ core.elapsed = spends
       /\ core = [timer |-> core.timer, start |-> core.start, paused |-> core.paused,
                  elapsed |-> core.elapsed]
  BY <1>3, <1>15 DEF CoreStates
<1> HIDE DEF starts, pauses, spends
<1>19. core \in CoreStates
  BY <1>12, <1>16, <1>18 DEF CoreStates
<1>20. \A j \in Ids : /\ Wrote(c.start[j], core.start[j], me)
                      /\ Wrote(c.paused[j], core.paused[j], me)
                      /\ Wrote(c.elapsed[j], core.elapsed[j], me)
  <2>1. \A x, k : Wrote(x, x, k)
    BY DEF Wrote
  <2> QED BY <1>7, <1>14, <1>17, <1>18, <2>1
<1>21. Formed([doc[d] EXCEPT !.core = core], born')
  <2> DEFINE new == [doc[d] EXCEPT !.core = core]
  <2>1. new.core = core
    BY <1>3 DEF DocStates
  <2> HIDE DEF new
  <2>2. ASSUME NEW j \in Ids, j > born'
        PROVE  /\ core.start[j] = EmptyKey /\ core.paused[j] = EmptyKey
               /\ core.elapsed[j] = EmptyKey
    <3>1. j # i /\ j > born
      BY <1>1, <1>2, <2>2 DEF Ids, i
    <3> QED BY <1>3, <1>17, <1>18, <3>1 DEF Formed, c
  <2>3. ASSUME NEW it \in core.timer.items
        PROVE  /\ core.start[it.val].items # {} /\ core.paused[it.val].items # {}
               /\ core.elapsed[it.val].items # {}
    <3>1. CASE it.val = i
      BY <1>9, <1>10, <1>11, <1>17, <1>18, <3>1
    <3>2. CASE it.val # i
      <4>1. it \in c.timer.items
        BY <1>13, <1>18, <2>3, <3>2
      <4>2. it.val \in Ids
        BY <1>3, <4>1 DEF Keys
      <4>3. c.start[it.val].items # {} /\ c.paused[it.val].items # {} /\ c.elapsed[it.val].items # {}
        BY <1>3, <4>1 DEF Formed, c
      <4> QED BY <1>17, <1>18, <3>2, <4>2, <4>3
    <3> QED BY <3>1, <3>2
  <2> QED BY <2>1, <2>2, <2>3 DEF Formed, new
<1>22. /\ DataInv' /\ doc'[d].core = core /\ doc'[d].entries = doc[d].entries
       /\ \A e \in Devices : e # d => doc'[e] = doc[e]
  BY <1>1, <1>2, <1>14, <1>18, <1>19, <1>20, <1>21, CoreStep DEF c, me
<1>23. RestOK'
  BY <1>1, <1>2, BoundsAssumption DEF TypeInv, RestOK, Command, ghosts, CallOK, SeenOK
<1>24. Running(d)' /\ ~Timer(d)'.paused
  <2>1. Running(d)'
    BY <1>12, <1>18, <1>22 DEF Running
  <2>2. Timer(d)'.paused = Value(core.paused[i])
    BY <1>12, <1>18, <1>22 DEF Timer, Instance
  <2> QED BY <1>10, <1>17, <1>18, <2>1, <2>2
<1>25. /\ doc'[d].core.timer.dead = doc[d].core.timer.dead
       /\ \A it \in doc'[d].core.timer.items :
            it \in doc[d].core.timer.items \/ it.path \notin doc[d].core.timer.dead
  BY <1>13, <1>18, <1>22 DEF c
<1> QED
  BY <1>1, <1>22, <1>23, <1>24, <1>25 DEF TypeInv

-----------------------------------------------------------------------------
(* The types hold.                                                         *)

\* Every step keeps the invariant behind the types.
LEMMA StepType == TypeInv /\ [Next]_vars => TypeInv'
<1> SUFFICES ASSUME TypeInv, [Next]_vars PROVE TypeInv'
  OBVIOUS
<1>1. ASSUME NEW d \in Devices,
             Start(d) \/ Resume(d) \/ Clear(d) \/ EditInPlace(d) \/ EndPass(d) \/ Crash(d)
      PROVE  TypeInv'
  BY <1>1, StartType, ResumeType, ClearType, EditInPlaceType, EndPassType, CrashType
<1>2. ASSUME NEW d \in Devices, BeginStop(d) PROVE TypeInv'
  BY <1>2, WaitType
<1>3. ASSUME NEW d \in Devices, NEW at \in 0..Horizon, Pause(d, at) PROVE TypeInv'
  BY <1>3, PauseType
<1>4. ASSUME NEW d \in Devices, NEW at \in 0..Horizon, BeginEdit(d, at) PROVE TypeInv'
  BY <1>4, WaitType
<1>5. ASSUME NEW d \in Devices, NEW i \in Ids, DeleteEntry(d, i) PROVE TypeInv'
  BY <1>5, DeleteEntryType
<1>6. ASSUME NEW d \in Devices, NEW s \in Spans, BeginManual(d, s) PROVE TypeInv'
  BY <1>6, WaitType
<1>7. ASSUME NEW d \in Devices, NEW n \in Docs, Persist(d, n) PROVE TypeInv'
  BY <1>7, PersistType
<1>8. ASSUME NEW d \in Devices, NEW n \in Docs, Exchange(d, n) PROVE TypeInv'
  BY <1>8, SyncType
<1>9. ASSUME NEW c \in calls, FinishEdit(c) PROVE TypeInv'
  BY <1>9, FinishEditType
<1>10. ASSUME NEW c \in calls, FinishStop(c) PROVE TypeInv'
  BY <1>10, FinishStopType
<1>11. ASSUME NEW c \in calls, FinishManual(c) PROVE TypeInv'
  BY <1>11, FinishManualType
<1>12. CASE Tick
  BY <1>12, WaitType
<1>13. CASE UNCHANGED vars
  <2>1. DataInv'
    BY <1>13, StayStep DEF TypeInv, vars
  <2>2. RestOK'
    BY <1>13 DEF TypeInv, RestOK, vars, CallOK, SeenOK
  <2> QED BY <2>1, <2>2 DEF TypeInv
<1> QED
  BY <1>1, <1>2, <1>3, <1>4, <1>5, <1>6, <1>7, <1>8, <1>9, <1>10, <1>11, <1>12, <1>13 DEF Next

\* The invariant holds in every state.
LEMMA TypeInvHolds == Spec => []TypeInv
<1>1. TypeInv /\ [Next]_vars => TypeInv'
  BY StepType
<1> QED
  BY <1>1, InitType, PTL DEF Spec

\* The keys of every copy keep their types, and a timer that is visible on a
\* device has all its fields, whatever was edited, merged, lost in a crash or
\* deleted elsewhere (Timer(d), which every command reads, is well defined).
THEOREM TimersAreWhole == Spec => []TypeOK
<1>1. TypeInv => TypeOK
  BY TypeInvTypes
<1> QED
  BY <1>1, TypeInvHolds, PTL

-----------------------------------------------------------------------------
(* A paused timer ends at an instant it was paused at.                     *)

\* The timer of a core document, if it is paused, ends when it was paused.
PausedFits(core, at) ==
  Has(core.timer) /\ TimerOf(core).paused => PauseEnd(TimerOf(core)) \in at[TimerOf(core).inst]

\* In memory and in the databases: a crash brings back what was saved.
PausedInv ==
  \A d \in Devices : PausedFits(doc[d].core, pausedAt) /\ PausedFits(disk[d].core, pausedAt)

\* Later pauses take none back.
LEMMA FitsLater ==
  ASSUME NEW x \in DocStates, \A s \in Slots : Sound(KeyAt(x, s)), NEW made, Formed(x, made),
         NEW at, NEW later, PausedFits(x.core, at), \A i \in Ids : at[i] \subseteq later[i]
  PROVE  PausedFits(x.core, later)
<1>1. Has(x.core.timer) => TimerOf(x.core) \in TimerRecords
  BY TimerType
<1>2. Has(x.core.timer) => TimerOf(x.core).inst \in Ids
  BY <1>1 DEF TimerRecords
<1> QED
  BY <1>2 DEF PausedFits

\* A device changes its timer in memory.
LEMMA PausedStep ==
  ASSUME TypeInv, PausedInv, NEW d \in Devices,
         \A e \in Devices : e # d => doc'[e] = doc[e], disk' = disk,
         \A i \in Ids : pausedAt[i] \subseteq pausedAt'[i],
         \/ ~Running(d)'
         \/ ~Timer(d)'.paused
         \/ PauseEnd(Timer(d)') \in pausedAt'[Timer(d)'.inst]
  PROVE  PausedInv'
<1>1. ASSUME NEW e \in Devices
      PROVE  PausedFits(doc[e].core, pausedAt') /\ PausedFits(disk[e].core, pausedAt')
  BY DeviceType, FitsLater DEF TypeInv, PausedInv
<1>2. PausedFits(doc'[d].core, pausedAt')
  <2>1. (Has(doc'[d].core.timer) <=> Running(d)') /\ TimerOf(doc'[d].core) = Timer(d)'
    BY DEF Running, Timer, TimerOf, Instance
  <2> QED BY <2>1 DEF PausedFits
<1>3. ASSUME NEW e \in Devices
      PROVE  PausedFits(doc'[e].core, pausedAt') /\ PausedFits(disk'[e].core, pausedAt')
  BY <1>1, <1>2
<1> QED
  BY <1>3 DEF PausedInv

\* A device keeps its timer, and the instant at which it was paused.
LEMMA SameEnd ==
  ASSUME TypeInv, PausedInv, NEW d \in Devices, Running(d),
         \A e \in Devices : e # d => doc'[e] = doc[e], UNCHANGED <<disk, pausedAt>>,
         Timer(d)'.inst = Timer(d).inst, Timer(d)'.paused = Timer(d).paused,
         Timer(d).paused => PauseEnd(Timer(d)') = PauseEnd(Timer(d))
  PROVE  PausedInv'
<1>1. Timer(d).paused => PauseEnd(Timer(d)) \in pausedAt[Timer(d).inst]
  BY DEF PausedInv, PausedFits, Running, Timer, TimerOf, Instance
<1> QED
  BY <1>1, PausedStep

\* Steps that touch no core document.
LEMMA SameCores ==
  ASSUME PausedInv, UNCHANGED pausedAt,
         \A d \in Devices : doc'[d].core = doc[d].core \/ doc'[d].core = disk[d].core,
         \A d \in Devices : disk'[d].core = disk[d].core \/ disk'[d].core = doc[d].core
  PROVE  PausedInv'
<1>1. ASSUME NEW d \in Devices
      PROVE  PausedFits(doc'[d].core, pausedAt') /\ PausedFits(disk'[d].core, pausedAt')
  BY DEF PausedInv
<1> QED
  BY <1>1 DEF PausedInv

\* Every step keeps it, where documents are not merged.
LEMMA StepPaused == Online = FALSE /\ TypeInv /\ PausedInv /\ [Next]_vars => PausedInv'
<1> SUFFICES ASSUME Online = FALSE, TypeInv, PausedInv, [Next]_vars PROVE PausedInv'
  OBVIOUS
<1>1. ASSUME NEW d \in Devices, Start(d) \/ Resume(d) \/ Clear(d) PROVE PausedInv'
  <2>1. \/ /\ UNCHANGED <<disk, pausedAt>> /\ (~Running(d)' \/ ~Timer(d)'.paused)
           /\ \A e \in Devices : e # d => doc'[e] = doc[e]
    BY <1>1, StartType, ResumeType, ClearType DEF Start, Resume, Clear, ghosts
  <2> QED BY <2>1, PausedStep
<1>2. ASSUME NEW d \in Devices, EditInPlace(d) PROVE PausedInv'
  <2>1. UNCHANGED <<disk, pausedAt>>
    BY <1>2 DEF EditInPlace, ghosts
  <2>2. /\ Running(d) /\ \A e \in Devices : e # d => doc'[e] = doc[e]
        /\ Timer(d)'.inst = Timer(d).inst /\ Timer(d)'.paused = Timer(d).paused
        /\ Timer(d).paused => PauseEnd(Timer(d)') = PauseEnd(Timer(d))
    BY <1>2, EditInPlaceType
  <2> QED BY <2>1, <2>2, SameEnd
<1>3. ASSUME NEW d \in Devices, NEW at \in 0..Horizon, Pause(d, at) PROVE PausedInv'
  <2>1. UNCHANGED disk
    BY <1>3 DEF Pause
  <2> QED BY <1>3, <2>1, PauseType, PausedStep
<1>4. ASSUME \/ Tick
             \/ \E d \in Devices, to \in 0..Horizon : BeginEdit(d, to)
             \/ \E d \in Devices : BeginStop(d)
             \/ \E d \in Devices, s \in Spans : BeginManual(d, s)
      PROVE  PausedInv'
  <2>1. UNCHANGED <<doc, disk, pausedAt>>
    BY <1>4, WaitType
  <2> QED BY <2>1, SameCores
<1>5. ASSUME NEW d \in Devices, NEW i \in Ids, DeleteEntry(d, i) PROVE PausedInv'
  <2>1. /\ UNCHANGED <<disk, pausedAt>> /\ doc'[d].core = doc[d].core
        /\ \A e \in Devices : e # d => doc'[e] = doc[e]
    BY <1>5, DeleteEntryType
  <2> QED BY <2>1, SameCores
<1>6. ASSUME NEW d \in Devices, NEW n \in Docs, Persist(d, n) PROVE PausedInv'
  <2>1. /\ UNCHANGED <<doc, pausedAt>> /\ \A e \in Devices : e # d => disk'[e] = disk[e]
        /\ disk'[d].core = doc[d].core \/ disk'[d].core = disk[d].core
    BY <1>6, PersistType DEF Docs
  <2> QED BY <2>1, SameCores
<1>7. ASSUME NEW d \in Devices, EndPass(d) PROVE PausedInv'
  <2>1. /\ UNCHANGED <<disk, pausedAt>> /\ \A e \in Devices : e # d => doc'[e] = doc[e]
        /\ UNCHANGED doc \/ ~Running(d)'
    BY <1>7, EndPassType
  <2>2. CASE UNCHANGED doc
    BY <2>1, <2>2, SameCores
  <2>3. CASE ~Running(d)'
    BY <2>1, <2>3, PausedStep
  <2> QED BY <2>1, <2>2, <2>3
<1>8. ASSUME NEW d \in Devices, Crash(d) PROVE PausedInv'
  <2>1. /\ UNCHANGED <<disk, pausedAt>> /\ doc'[d] = disk[d]
        /\ \A e \in Devices : e # d => doc'[e] = doc[e]
    BY <1>8, CrashType
  <2> QED BY <2>1, SameCores
<1>9. ASSUME NEW c \in calls, FinishEdit(c) PROVE PausedInv'
  <2> DEFINE d == c.device
  <2>1. d \in Devices /\ UNCHANGED <<disk, pausedAt>>
    BY <1>9, FinishEditType
  <2>2. CASE UNCHANGED doc
    BY <2>1, <2>2, SameCores
  <2>3. CASE /\ Running(d) /\ \A e \in Devices : e # d => doc'[e] = doc[e]
             /\ Timer(d)'.inst = Timer(d).inst /\ Timer(d)'.paused = Timer(d).paused
             /\ Timer(d).paused => PauseEnd(Timer(d)') = PauseEnd(Timer(d))
    <3> HIDE DEF d
    <3> QED BY <2>1, <2>3, SameEnd
  <2> QED BY <1>9, <2>2, <2>3, FinishEditType
<1>10. ASSUME NEW c \in calls, FinishStop(c) PROVE PausedInv'
  <2> DEFINE d == c.device
  <2>1. d \in Devices /\ UNCHANGED <<disk, pausedAt>>
    BY <1>10, FinishStopType
  <2>2. CASE UNCHANGED doc
    BY <2>1, <2>2, SameCores
  <2>3. CASE ~Running(d)' /\ \A e \in Devices : e # d => doc'[e] = doc[e]
    <3> HIDE DEF d
    <3> QED BY <2>1, <2>3, PausedStep
  <2> QED BY <1>10, <2>2, <2>3, FinishStopType
<1>11. ASSUME NEW c \in calls, FinishManual(c) PROVE PausedInv'
  <2>1. /\ c.device \in Devices /\ UNCHANGED <<disk, pausedAt>>
        /\ UNCHANGED doc \/ (/\ doc'[c.device].core = doc[c.device].core
                             /\ \A e \in Devices : e # c.device => doc'[e] = doc[e])
    BY <1>11, FinishManualType
  <2> QED BY <2>1, SameCores
<1>12. CASE UNCHANGED vars
  <2>1. UNCHANGED <<doc, disk, pausedAt>>
    BY <1>12 DEF vars
  <2> QED BY <2>1, SameCores
<1>13. ASSUME NEW d \in Devices, NEW n \in Docs PROVE ~Exchange(d, n)
  BY DEF Exchange
<1> QED
  BY <1>1, <1>2, <1>3, <1>4, <1>5, <1>6, <1>7, <1>8, <1>9, <1>10, <1>11, <1>12, <1>13 DEF Next

\* A paused timer ends at an instant at which it was paused, however its start
\* was edited since, and however many edits waited meanwhile
\* (updateTimerWithValidation); without a provider, whose merges take each
\* field of a timer on its own.
THEOREM PausesAreReal == ASSUME Online = FALSE PROVE Spec => []PauseEndIsReal
<1>1. Init => PausedInv
  <2>1. EmptyKey.items = {}
    BY DEF EmptyKey
  <2> QED BY <2>1 DEF Init, PausedInv, PausedFits, EmptyDocs, EmptyCore, Has
<1>2. TypeInv /\ PausedInv /\ [Next]_vars => PausedInv'
  BY StepPaused
<1>3. PausedInv => PauseEndIsReal
  BY DEF PausedInv, PausedFits, PauseEndIsReal, Running, Timer, TimerOf, Instance
<1> QED
  BY <1>1, <1>2, <1>3, TypeInvHolds, PTL DEF Spec

-----------------------------------------------------------------------------
(* No two entries overlap.                                                 *)

PairFree(s) == \A e, f \in s : e # f => ~Overlap(e[2], f[2])

\* In memory and in the databases; and what a stop or a manual entry saw
\* before it waited holds all entries that are there when it writes.
FreeInv ==
  /\ \A d \in Devices :
       PairFree(Entries(doc[d].entries)) /\ PairFree(Entries(disk[d].entries))
  /\ IsFiniteSet(calls) /\ \A c, o \in calls : c.device = o.device => c = o
  /\ \A c \in calls : c.kind # "edit" => Entries(doc[c.device].entries) \subseteq c.seen

\* One entry is written or deleted.
LEMMA EntriesOf ==
  ASSUME NEW f, NEW g, NEW i \in Ids, \A j \in Ids : j # i => g[j] = f[j]
  PROVE  /\ ~Has(g[i]) => Entries(g) \subseteq Entries(f)
         /\ Entries(g) \subseteq Entries(f) \cup {<<i, Value(g[i])>>}
BY DEF Entries

\* An entry that overlaps none is added.
LEMMA AddedFree ==
  ASSUME NEW s, NEW seen, s \subseteq seen, PairFree(s), NEW i, NEW span \in Int \X Int,
         s \subseteq Ids \X (Int \X Int), Free(span, seen),
         NEW t, t \subseteq s \cup {<<i, span>>}
  PROVE  PairFree(t)
<1> SUFFICES ASSUME NEW e \in t, NEW f \in t, e # f PROVE ~Overlap(e[2], f[2])
  BY DEF PairFree
<1>1. CASE e \in s /\ f \in s
  BY <1>1 DEF PairFree
<1>2. ASSUME NEW o \in s PROVE ~Overlap(span, o[2]) /\ ~Overlap(o[2], span)
  <2>1. o[2] \in Int \X Int
    OBVIOUS
  <2>2. ~Overlap(span, o[2])
    BY DEF Free
  <2> QED BY <2>1, <2>2 DEF Overlap
<1>3. CASE e \in s /\ f = <<i, span>>
  BY <1>2, <1>3
<1>4. CASE f \in s /\ e = <<i, span>>
  BY <1>2, <1>4
<1> QED
  BY <1>1, <1>3, <1>4

\* A smaller set is free too.
LEMMA SubsetFree ==
  ASSUME NEW s, NEW t, t \subseteq s, PairFree(s)
  PROVE  PairFree(t)
BY DEF PairFree

\* A device may have fewer entries, and commands may end.
LEMMA FewerStep ==
  ASSUME FreeInv, calls' \subseteq calls,
         \A d \in Devices : Entries(doc'[d].entries) \subseteq Entries(doc[d].entries),
         \A d \in Devices : disk'[d].entries = disk[d].entries \/ disk'[d].entries = doc[d].entries,
         \A c \in calls : c.device \in Devices
  PROVE  FreeInv'
<1>1. \A d \in Devices :
        PairFree(Entries(doc'[d].entries)) /\ PairFree(Entries(disk'[d].entries))
  BY SubsetFree DEF FreeInv
<1>2. IsFiniteSet(calls') /\ \A c, o \in calls' : c.device = o.device => c = o
  <2>1. IsFiniteSet(calls)
    BY DEF FreeInv
  <2>2. IsFiniteSet(calls')
    BY <2>1, FS_Subset
  <2> QED BY <2>2 DEF FreeInv
<1>3. \A c \in calls' : c.kind # "edit" => Entries(doc'[c.device].entries) \subseteq c.seen
  BY DEF FreeInv
<1> QED
  BY <1>1, <1>2, <1>3 DEF FreeInv

\* A stop or a manual entry writes an entry that overlaps none it saw.
LEMMA AddedStep ==
  ASSUME TypeInv, FreeInv, NEW c \in calls, c.kind # "edit", c.device \in Devices,
         calls' = calls \ {c}, disk' = disk,
         \A e \in Devices : e # c.device => doc'[e] = doc[e],
         NEW i \in Ids, NEW span \in Int \X Int, Free(span, c.seen),
         Value(doc'[c.device].entries[i]) = span,
         \A j \in Ids : j # i => doc'[c.device].entries[j] = doc[c.device].entries[j]
  PROVE  FreeInv'
<1> DEFINE d == c.device
<1>1. Entries(doc[d].entries) \subseteq c.seen /\ PairFree(Entries(doc[d].entries))
  BY DEF FreeInv
<1>2. Entries(doc[d].entries) \subseteq Ids \X (Int \X Int)
  BY DeviceType DEF TypeInv
<1>3. Entries(doc'[d].entries) \subseteq Entries(doc[d].entries) \cup {<<i, span>>}
  <2> DEFINE f == doc[d].entries
             g == doc'[d].entries
  <2>1. Value(g[i]) = span /\ \A j \in Ids : j # i => g[j] = f[j]
    OBVIOUS
  <2> HIDE DEF f, g
  <2>2. Entries(g) \subseteq Entries(f) \cup {<<i, Value(g[i])>>}
    BY <2>1, EntriesOf
  <2> QED BY <2>1, <2>2 DEF f, g
<1>4. PairFree(Entries(doc'[d].entries))
  BY <1>1, <1>2, <1>3, AddedFree
<1>5. \A e \in Devices : PairFree(Entries(doc'[e].entries)) /\ PairFree(Entries(disk'[e].entries))
  BY <1>4 DEF FreeInv
<1>6. IsFiniteSet(calls') /\ \A k, o \in calls' : k.device = o.device => k = o
  <2>1. IsFiniteSet(calls) /\ calls' \subseteq calls
    BY DEF FreeInv
  <2>2. IsFiniteSet(calls')
    BY <2>1, FS_Subset
  <2> QED BY <2>1, <2>2 DEF FreeInv
<1>7. ASSUME NEW k \in calls', k.kind # "edit"
      PROVE  Entries(doc'[k.device].entries) \subseteq k.seen
  <2>1. k \in calls /\ k # c /\ k.device \in Devices
    BY DEF TypeInv, RestOK, CallOK
  <2>2. k.device # c.device
    BY <2>1 DEF FreeInv
  <2> QED BY <1>7, <2>1, <2>2 DEF FreeInv
<1> QED
  BY <1>5, <1>6, <1>7 DEF FreeInv

\* A command begins to wait on a device where none waits.
LEMMA BeginFree ==
  ASSUME MaxInFlight <= 1, FreeInv, NEW d \in Devices, NEW call, Begin(d, call),
         call.device = d, call.kind # "edit" => call.seen = Entries(doc[d].entries)
  PROVE  FreeInv'
<1>1. /\ calls' = calls \cup {call} /\ UNCHANGED <<doc, disk>>
      /\ Cardinality(InFlight(d)) < MaxInFlight
  BY DEF Begin
<1>2. IsFiniteSet(calls) /\ InFlight(d) \subseteq calls
  BY DEF FreeInv, InFlight
<1>3. IsFiniteSet(InFlight(d))
  BY <1>2, FS_Subset
<1>4. Cardinality(InFlight(d)) = 0
  <2>1. Cardinality(InFlight(d)) \in Nat
    BY <1>3, FS_CardinalityType
  <2>2. MaxInFlight \in Nat
    BY BoundsAssumption
  <2> QED BY <1>1, <2>1, <2>2
<1>5. InFlight(d) = {}
  BY <1>3, <1>4, FS_EmptySet
<1>6. \A c \in calls : c.device # d
  BY <1>5 DEF InFlight
<1>7. IsFiniteSet(calls')
  BY <1>1, <1>2, FS_AddElement
<1>8. \A c, o \in calls' : c.device = o.device => c = o
  BY <1>1, <1>6 DEF FreeInv
<1>9. \A c \in calls' : c.kind # "edit" => Entries(doc'[c.device].entries) \subseteq c.seen
  BY <1>1 DEF FreeInv
<1> QED
  BY <1>1, <1>7, <1>8, <1>9 DEF FreeInv

\* Every step keeps it, where documents are not merged and one command waits at
\* a time.
LEMMA StepFree ==
  Online = FALSE /\ MaxInFlight <= 1 /\ TypeInv /\ FreeInv /\ [Next]_vars => FreeInv'
<1> SUFFICES ASSUME Online = FALSE, MaxInFlight <= 1, TypeInv, FreeInv, [Next]_vars
             PROVE  FreeInv'
  OBVIOUS
<1>0. \A c \in calls : c.device \in Devices
  BY DEF TypeInv, RestOK, CallOK
<1>1. ASSUME NEW d \in Devices, calls' \subseteq calls, UNCHANGED disk,
             doc'[d].entries = doc[d].entries, \A e \in Devices : e # d => doc'[e] = doc[e]
      PROVE  FreeInv'
  BY <1>0, <1>1, FewerStep
<1>2. ASSUME calls' \subseteq calls, UNCHANGED <<doc, disk>> PROVE FreeInv'
  BY <1>0, <1>2, FewerStep
<1>3. ASSUME NEW d \in Devices,
             Start(d) \/ Resume(d) \/ Clear(d) \/ EditInPlace(d) \/ EndPass(d)
      PROVE  FreeInv'
  <2>1. /\ UNCHANGED <<disk, calls>> /\ doc'[d].entries = doc[d].entries
        /\ \A e \in Devices : e # d => doc'[e] = doc[e]
    BY <1>3, StartType, ResumeType, ClearType, EditInPlaceType, EndPassType
       DEF Start, Resume, Clear, EditInPlace, EndPass
  <2> QED BY <1>1, <2>1
<1>4. ASSUME NEW d \in Devices, NEW at \in 0..Horizon, Pause(d, at) PROVE FreeInv'
  <2>1. /\ UNCHANGED <<disk, calls>> /\ doc'[d].entries = doc[d].entries
        /\ \A e \in Devices : e # d => doc'[e] = doc[e]
    BY <1>4, PauseType DEF Pause
  <2> QED BY <1>1, <2>1
<1>5. ASSUME NEW d \in Devices, NEW at \in 0..Horizon, BeginEdit(d, at) PROVE FreeInv'
  <2> DEFINE call == [kind |-> "edit", device |-> d, n |-> given, asked |-> Timer(d), to |-> at]
  <2>1. Begin(d, call) /\ call.device = d /\ call.kind = "edit"
    BY <1>5 DEF BeginEdit
  <2> HIDE DEF call
  <2> QED BY <2>1, BeginFree
<1>6. ASSUME NEW d \in Devices, BeginStop(d) PROVE FreeInv'
  <2> DEFINE call == [kind |-> "stop", device |-> d, n |-> given, asked |-> Timer(d),
                      seen |-> Entries(doc[d].entries)]
  <2>1. Begin(d, call) /\ call.device = d /\ call.seen = Entries(doc[d].entries)
    BY <1>6 DEF BeginStop
  <2> HIDE DEF call
  <2> QED BY <2>1, BeginFree
<1>7. ASSUME NEW d \in Devices, NEW s \in Spans, BeginManual(d, s) PROVE FreeInv'
  <2> DEFINE call == [kind |-> "manual", device |-> d, n |-> given, span |-> s,
                      seen |-> Entries(doc[d].entries)]
  <2>1. Begin(d, call) /\ call.device = d /\ call.seen = Entries(doc[d].entries)
    BY <1>7 DEF BeginManual
  <2> HIDE DEF call
  <2> QED BY <2>1, BeginFree
<1>8. ASSUME NEW d \in Devices, NEW i \in Ids, DeleteEntry(d, i) PROVE FreeInv'
  <2>1. /\ UNCHANGED <<disk, calls>> /\ doc'[d].entries[i] = Delete(doc[d].entries[i])
        /\ \A j \in Ids : j # i => doc'[d].entries[j] = doc[d].entries[j]
        /\ \A e \in Devices : e # d => doc'[e] = doc[e]
    BY <1>8, DeleteEntryType
  <2>2. ~Has(doc'[d].entries[i])
    <3>1. DataInv
      BY DEF TypeInv
    <3> QED BY <2>1, <3>1, EntryType, DeleteType
  <2>3. Entries(doc'[d].entries) \subseteq Entries(doc[d].entries)
    BY <2>1, <2>2, EntriesOf
  <2> QED BY <1>0, <2>1, <2>3, FewerStep
<1>9. ASSUME NEW d \in Devices, NEW n \in Docs, Persist(d, n) PROVE FreeInv'
  <2>1. /\ UNCHANGED <<doc, calls>> /\ \A e \in Devices : e # d => disk'[e] = disk[e]
        /\ disk'[d].entries = doc[d].entries \/ disk'[d].entries = disk[d].entries
    BY <1>9, PersistType DEF Docs
  <2> QED BY <1>0, <2>1, FewerStep
<1>10. ASSUME NEW d \in Devices, Crash(d) PROVE FreeInv'
  <2>1. /\ UNCHANGED disk /\ doc'[d] = disk[d] /\ \A e \in Devices : e # d => doc'[e] = doc[e]
        /\ calls' = calls \ InFlight(d)
    BY <1>10, CrashType
  <2>2. IsFiniteSet(calls) /\ calls' \subseteq calls
    BY <2>1 DEF FreeInv
  <2>3. IsFiniteSet(calls')
    BY <2>2, FS_Subset
  <2>4. \A c \in calls' : c.device # d /\ c \in calls
    BY <2>1 DEF InFlight
  <2>5. \A c \in calls' : c.kind # "edit" => Entries(doc'[c.device].entries) \subseteq c.seen
    BY <1>0, <2>1, <2>4 DEF FreeInv
  <2>6. \A e \in Devices : PairFree(Entries(doc'[e].entries)) /\ PairFree(Entries(disk'[e].entries))
    BY <2>1 DEF FreeInv
  <2> QED BY <2>3, <2>4, <2>5, <2>6 DEF FreeInv
<1>11. ASSUME NEW c \in calls, FinishEdit(c) PROVE FreeInv'
  <2>1. /\ c.device \in Devices /\ UNCHANGED disk /\ calls' \subseteq calls
        /\ \/ UNCHANGED doc
           \/ /\ doc'[c.device].entries = doc[c.device].entries
              /\ \A e \in Devices : e # c.device => doc'[e] = doc[e]
    BY <1>11, FinishEditType
  <2> QED BY <1>1, <1>2, <2>1
<1>12. ASSUME NEW c \in calls, FinishStop(c) PROVE FreeInv'
  <2> DEFINE d == c.device
             i == Timer(d).inst
             span == StopSpan(Timer(d))
  <2>1. /\ d \in Devices /\ c.kind = "stop" /\ UNCHANGED disk /\ calls' = calls \ {c}
    BY <1>12, FinishStopType
  <2>2. CASE UNCHANGED doc
    BY <1>2, <2>1, <2>2
  <2>3. CASE /\ doc'[d].entries = doc[d].entries /\ \A e \in Devices : e # d => doc'[e] = doc[e]
    BY <1>1, <2>1, <2>3
  <2>4. CASE /\ Running(d) /\ i \in Ids /\ Free(span, c.seen)
             /\ Value(doc'[d].entries[i]) = span
             /\ \A j \in Ids : j # i => doc'[d].entries[j] = doc[d].entries[j]
             /\ \A e \in Devices : e # d => doc'[e] = doc[e]
    <3>1. span \in Int \X Int
      <4> DEFINE t == Timer(d)
      <4>1. t \in TimerRecords /\ clock \in Int
        BY <2>1, <2>4, DeviceType, BoundsAssumption DEF TypeInv, RestOK
      <4> HIDE DEF t
      <4>2. StopSpan(t) \in Int \X Int
        BY <4>1 DEF StopSpan, StopEnd, PauseEnd, Later, TimerRecords
      <4> QED BY <4>2 DEF t
    <3> HIDE DEF i, span
    <3> QED BY <2>1, <2>4, <3>1, AddedStep DEF d
  <2> QED
    BY <1>12, <2>2, <2>3, <2>4, FinishStopType
<1>13. ASSUME NEW c \in calls, FinishManual(c) PROVE FreeInv'
  <2>1. /\ c.device \in Devices /\ c.kind = "manual" /\ UNCHANGED disk /\ calls' = calls \ {c}
    BY <1>13, FinishManualType
  <2>2. CASE UNCHANGED doc
    BY <1>2, <2>1, <2>2
  <2>3. ASSUME NEW i \in Ids, Value(doc'[c.device].entries[i]) = c.span, Free(c.span, c.seen),
               \A j \in Ids : j # i => doc'[c.device].entries[j] = doc[c.device].entries[j],
               \A e \in Devices : e # c.device => doc'[e] = doc[e]
        PROVE  FreeInv'
    <3>1. c.span \in Int \X Int
      BY <2>1, SpanAssumption DEF TypeInv, RestOK, CallOK
    <3> QED BY <2>1, <2>3, <3>1, AddedStep
  <2> QED
    BY <1>13, <2>2, <2>3, FinishManualType
<1>14. CASE Tick
  BY <1>2, <1>14 DEF Tick, dataVars
<1>15. CASE UNCHANGED vars
  BY <1>2, <1>15 DEF vars
<1>16. ASSUME NEW d \in Devices, NEW n \in Docs PROVE ~Exchange(d, n)
  BY DEF Exchange
<1> QED
  BY <1>3, <1>4, <1>5, <1>6, <1>7, <1>8, <1>9, <1>10, <1>11, <1>12, <1>13, <1>14, <1>15, <1>16
     DEF Next

\* No two entries of a project overlap, whatever was stopped, entered by hand,
\* deleted or lost in a crash (checkTimeOverlap); without a provider, and while
\* one command waits at a time on a device: a second one checks against
\* entries that do not have the first's.
THEOREM EntriesAreApart ==
  ASSUME Online = FALSE, MaxInFlight <= 1 PROVE Spec => []NoOverlap
<1>1. Init => FreeInv
  <2> SUFFICES ASSUME Init PROVE FreeInv
    OBVIOUS
  <2>1. /\ \A d \in Devices : doc[d] = EmptyDocs /\ disk[d] = EmptyDocs
        /\ calls = {}
    BY DEF Init
  <2>2. Entries(EmptyDocs.entries) = {}
    BY DEF Entries, EmptyDocs, EmptyKey, Has
  <2>3. IsFiniteSet(calls)
    BY <2>1, FS_EmptySet
  <2> QED BY <2>1, <2>2, <2>3 DEF FreeInv, PairFree
<1>2. TypeInv /\ FreeInv /\ [Next]_vars => FreeInv'
  BY StepFree
<1>3. FreeInv => NoOverlap
  BY DEF FreeInv, PairFree, NoOverlap
<1> QED
  BY <1>1, <1>2, <1>3, TypeInvHolds, PTL DEF Spec

-----------------------------------------------------------------------------
(* Tracked work is kept.                                                   *)

\* The entry of a timer is where a crash of every tab leaves it, or the user
\* asked for its end.
Durable(i) ==
  \/ i \in waived
  \/ \E d \in Devices : disk[d].entries[i].items # {}
  \/ cloud.entries[i].items # {}

\* A deletion is saved after the entry it stands for; in memory, the entry is
\* there as well.  What a stop saw before it waited is there still.
KeptInv ==
  /\ \A d \in Devices, i \in Ids : Ended(disk[d], i) => Durable(i)
  /\ \A i \in Ids : Ended(cloud, i) => Durable(i)
  /\ \A d \in Devices, i \in Ids :
       Ended(doc[d], i) => Durable(i) \/ doc[d].entries[i].items # {}
  /\ \A c \in calls : c.kind = "stop" =>
       \A e \in c.seen : doc[c.device].entries[e[1]].items # {}

\* Entries are not taken out of the databases or the provider's copy, and a
\* document in memory loses none but to a crash.
KeptMonotone ==
  /\ waived \subseteq waived'
  /\ \A d \in Devices, i \in Ids : disk[d].entries[i].items \subseteq disk'[d].entries[i].items
  /\ \A i \in Ids : cloud.entries[i].items \subseteq cloud'.entries[i].items

\* What is durable stays so.
LEMMA DurableStays ==
  ASSUME KeptMonotone, NEW i \in Ids, Durable(i)
  PROVE  Durable(i)'
BY DEF KeptMonotone, Durable

\* The timer of every copy is a sound key, and no two copies disagree on it;
\* and a database has no more entries than the memory of its device.
LEMMA TimerKeys ==
  ASSUME DataInv
  PROVE  /\ \A x \in CopiesOf(doc, disk, cloud) :
              Sound(x.core.timer) /\ x.core.timer \in Keys(Paths, Ids)
         /\ \A x, y \in CopiesOf(doc, disk, cloud) : Agree(x.core.timer, y.core.timer)
         /\ \A d \in Devices, i \in Ids :
              disk[d].entries[i].items \subseteq doc[d].entries[i].items
<1>1. <<"timer", 0>> \in Slots /\ \A x : KeyAt(x, <<"timer", 0>>) = x.core.timer
  BY DEF Slots, KeyAt
<1>2. \A i \in Ids : <<"entry", i>> \in Slots /\ \A x : KeyAt(x, <<"entry", i>>) = x.entries[i]
  BY DEF Slots, KeyAt
<1>3. \A x \in CopiesOf(doc, disk, cloud) : x \in DocStates
  BY DEF CopiesOf, DataInv
<1>4. \A x \in CopiesOf(doc, disk, cloud) : Sound(x.core.timer) /\ x.core.timer \in Keys(Paths, Ids)
  BY <1>1, <1>3 DEF DataInv, KeysFit, DocStates, CoreStates
<1>5. \A x, y \in CopiesOf(doc, disk, cloud) : Agree(x.core.timer, y.core.timer)
  BY <1>1 DEF DataInv, KeysFit
<1>6. \A d \in Devices, i \in Ids : disk[d].entries[i].items \subseteq doc[d].entries[i].items
  BY <1>2 DEF DataInv, KeysFit, Within
<1> QED
  BY <1>4, <1>5, <1>6

\* A deletion of the timer ends the instance that was shown.
LEMMA EndedByDelete ==
  ASSUME NEW key \in Keys(Paths, Ids), Sound(key), NEW x, NEW y, y.core.timer = key,
         x.core.timer = Delete(key), NEW i, Ended(x, i)
  PROVE  Ended(y, i) \/ (Has(key) /\ i = Value(key))
<1> DEFINE new == Delete(key)
<1>1. /\ new.items = key.items
      /\ new.dead = IF Has(key) THEN key.dead \cup {Last(key).path} ELSE key.dead
  BY DeleteType
<1> HIDE DEF new
<1>2. PICK it \in new.items : it.val = i /\ it.path \in new.dead
  BY DEF Ended, new
<1>3. CASE it.path \in key.dead
  BY <1>1, <1>2, <1>3 DEF Ended
<1>4. CASE it.path \notin key.dead
  <2>1. Has(key) /\ it.path = Last(key).path
    BY <1>1, <1>2, <1>4
  <2>2. Last(key) \in key.items
    BY <2>1, LastItem DEF Has
  <2>3. it = Last(key)
    BY <1>1, <1>2, <2>1, <2>2 DEF Sound
  <2> QED BY <1>2, <2>1, <2>3 DEF Value
<1> QED
  BY <1>3, <1>4

\* A merge ends what one of the copies ended.
LEMMA EndedByMerge ==
  ASSUME NEW x, NEW y, NEW z, Sound(x.core.timer), Sound(y.core.timer),
         Agree(x.core.timer, y.core.timer),
         z.core.timer = Merge(x.core.timer, y.core.timer), NEW i, Ended(z, i)
  PROVE  Ended(x, i) \/ Ended(y, i)
<1> DEFINE a == x.core.timer
           b == y.core.timer
           m == Merge(a, b)
<1>1. m.items = a.items \cup b.items /\ m.dead = a.dead \cup b.dead
  BY DEF Merge
<1>2. PICK it \in m.items : it.val = i /\ it.path \in m.dead
  BY DEF Ended
<1> HIDE DEF m, a, b
<1>3. /\ \A p \in a.dead : \E o \in a.items : o.path = p
      /\ \A p \in b.dead : \E o \in b.items : o.path = p
      /\ \A o \in a.items, q \in b.items : o.path = q.path => o = q
  BY DEF Sound, Agree, a, b
<1>4. (it \in a.items /\ it.path \in a.dead) \/ (it \in b.items /\ it.path \in b.dead)
  BY <1>1, <1>2, <1>3
<1> QED
  BY <1>2, <1>4 DEF Ended, a, b

\* A device changes its memory; it loses no entry, and a timer that ends has
\* its entry there or is waived.
LEMMA KeptStep ==
  ASSUME TypeInv, KeptInv, NEW d \in Devices, UNCHANGED <<disk, cloud>>, calls' \subseteq calls,
         waived \subseteq waived',
         \A e \in Devices : e # d => doc'[e] = doc[e],
         \A i \in Ids : doc[d].entries[i].items \subseteq doc'[d].entries[i].items,
         \A i \in Ids : Ended(doc'[d], i) =>
           Ended(doc[d], i) \/ i \in waived' \/ doc'[d].entries[i].items # {}
  PROVE  KeptInv'
<1>1. KeptMonotone
  BY DEF KeptMonotone
<1>2. \A i \in Ids : Durable(i) => Durable(i)'
  BY <1>1, DurableStays
<1>3. \A i \in Ids : i \in waived' => Durable(i)'
  BY DEF Durable
<1>4. ASSUME NEW e \in Devices, NEW i \in Ids, Ended(doc'[e], i)
      PROVE  Durable(i)' \/ doc'[e].entries[i].items # {}
  BY <1>2, <1>3, <1>4 DEF KeptInv
<1>5. ASSUME NEW c \in calls', c.kind = "stop", NEW e \in c.seen
      PROVE  doc'[c.device].entries[e[1]].items # {}
  <2>1. c.device \in Devices /\ e[1] \in Ids /\ c \in calls
    BY <1>5 DEF TypeInv, RestOK, CallOK, SeenOK
  <2>2. doc[c.device].entries[e[1]].items # {}
    BY <1>5, <2>1 DEF KeptInv
  <2> QED BY <2>1, <2>2
<1>6. /\ \A e \in Devices, i \in Ids : Ended(disk'[e], i) => Durable(i)'
      /\ \A i \in Ids : Ended(cloud', i) => Durable(i)'
  BY <1>2 DEF KeptInv
<1> QED
  BY <1>4, <1>5, <1>6 DEF KeptInv

\* The documents stay, and no stop begins to wait.
LEMMA KeptSame ==
  ASSUME KeptInv, UNCHANGED <<doc, disk, cloud, waived>>,
         \A c \in calls' : c.kind = "stop" =>
           c \in calls \/ \A e \in c.seen : doc[c.device].entries[e[1]].items # {}
  PROVE  KeptInv'
BY DEF KeptInv, Durable

\* A device deletes the timer it shows, whose entry is there or is waived.
LEMMA KeptDrop ==
  ASSUME TypeInv, KeptInv, NEW d \in Devices, UNCHANGED <<disk, cloud>>, calls' \subseteq calls,
         waived \subseteq waived',
         \A e \in Devices : e # d => doc'[e] = doc[e],
         \A i \in Ids : doc[d].entries[i].items \subseteq doc'[d].entries[i].items,
         doc'[d].core.timer = Delete(doc[d].core.timer), Running(d),
         Instance(d) \in waived' \/ doc'[d].entries[Instance(d)].items # {}
  PROVE  KeptInv'
<1>1. doc[d] \in CopiesOf(doc, disk, cloud) /\ DataInv
  BY DEF CopiesOf, TypeInv
<1>2. Sound(doc[d].core.timer) /\ doc[d].core.timer \in Keys(Paths, Ids)
  BY <1>1, TimerKeys
<1>3. ASSUME NEW i \in Ids, Ended(doc'[d], i)
      PROVE  Ended(doc[d], i) \/ i \in waived' \/ doc'[d].entries[i].items # {}
  <2>1. Ended(doc[d], i) \/ (Has(doc[d].core.timer) /\ i = Value(doc[d].core.timer))
    BY <1>2, <1>3, EndedByDelete
  <2> QED BY <2>1 DEF Instance
<1> QED
  BY <1>3, KeptStep

\* An entry that a device shows was written.
LEMMA SeenWritten ==
  ASSUME NEW f, NEW e \in Entries(f)
  PROVE  e[1] \in Ids /\ f[e[1]].items # {}
BY DEF Entries, Has

\* Every step keeps it.
LEMMA StepKept == SavedFirst /\ TypeInv /\ KeptInv /\ [Next]_vars => KeptInv'
<1> SUFFICES ASSUME SavedFirst, TypeInv, KeptInv, [Next]_vars PROVE KeptInv'
  OBVIOUS
<1>0. DataInv
  BY DEF TypeInv
\* Steps that write neither the timer key nor an entry.
<1>1. ASSUME NEW d \in Devices, UNCHANGED <<disk, cloud, waived>>, calls' \subseteq calls,
             \A e \in Devices : e # d => doc'[e] = doc[e],
             doc'[d].core.timer = doc[d].core.timer,
             \A i \in Ids : doc[d].entries[i].items \subseteq doc'[d].entries[i].items
      PROVE  KeptInv'
  <2>1. \A i \in Ids : Ended(doc'[d], i) => Ended(doc[d], i)
    BY <1>1 DEF Ended
  <2> QED BY <1>1, <2>1, KeptStep
<1>2. ASSUME UNCHANGED <<doc, disk, cloud, waived>>, calls' \subseteq calls PROVE KeptInv'
  BY <1>2, KeptSame
<1>3. ASSUME NEW d \in Devices, Resume(d) \/ EditInPlace(d) PROVE KeptInv'
  <2>1. /\ UNCHANGED <<disk, cloud, calls, waived>> /\ doc'[d].entries = doc[d].entries
        /\ doc'[d].core.timer = doc[d].core.timer
        /\ \A e \in Devices : e # d => doc'[e] = doc[e]
    BY <1>3, ResumeType, EditInPlaceType DEF Resume, EditInPlace, ghosts
  <2> QED BY <1>1, <2>1
<1>4. ASSUME NEW d \in Devices, NEW at \in 0..Horizon, Pause(d, at) PROVE KeptInv'
  <2>1. /\ UNCHANGED <<disk, cloud, calls, waived>> /\ doc'[d].entries = doc[d].entries
        /\ doc'[d].core.timer = doc[d].core.timer
        /\ \A e \in Devices : e # d => doc'[e] = doc[e]
    BY <1>4, PauseType DEF Pause
  <2> QED BY <1>1, <2>1
<1>5. ASSUME NEW d \in Devices, Start(d) PROVE KeptInv'
  <2>1. /\ UNCHANGED <<disk, cloud, calls, waived>> /\ doc'[d].entries = doc[d].entries
        /\ \A e \in Devices : e # d => doc'[e] = doc[e]
        /\ doc'[d].core.timer.dead = doc[d].core.timer.dead
        /\ \A it \in doc'[d].core.timer.items :
             it \in doc[d].core.timer.items \/ it.path \notin doc[d].core.timer.dead
    BY <1>5, StartType
  <2>2. \A i \in Ids : Ended(doc'[d], i) => Ended(doc[d], i)
    BY <2>1 DEF Ended
  <2> QED BY <2>1, <2>2, KeptStep
<1>6. ASSUME NEW d \in Devices, Clear(d) PROVE KeptInv'
  <2>1. /\ UNCHANGED <<disk, cloud, calls>> /\ doc'[d].entries = doc[d].entries
        /\ doc'[d].core.timer = Delete(doc[d].core.timer) /\ Running(d)
        /\ \A e \in Devices : e # d => doc'[e] = doc[e]
        /\ waived' = waived \cup {Instance(d)}
    BY <1>6, ClearType DEF Clear
  <2>2. /\ waived \subseteq waived' /\ Instance(d) \in waived' /\ calls' \subseteq calls
        /\ \A i \in Ids : doc[d].entries[i].items \subseteq doc'[d].entries[i].items
    BY <2>1
  <2> QED BY <2>1, <2>2, KeptDrop
<1>7. ASSUME NEW d \in Devices, NEW i \in Ids, DeleteEntry(d, i) PROVE KeptInv'
  <2>1. /\ UNCHANGED <<disk, cloud, calls>> /\ doc'[d].core = doc[d].core
        /\ doc'[d].entries[i] = Delete(doc[d].entries[i])
        /\ \A j \in Ids : j # i => doc'[d].entries[j] = doc[d].entries[j]
        /\ \A e \in Devices : e # d => doc'[e] = doc[e]
        /\ waived' = waived \cup {i}
    BY <1>7, DeleteEntryType DEF DeleteEntry
  <2>2. doc'[d].entries[i].items = doc[d].entries[i].items
    BY <1>0, <2>1, EntryType, DeleteType, ZenonT(60)
  <2>3. \A j \in Ids : Ended(doc'[d], j) => Ended(doc[d], j)
    BY <2>1 DEF Ended
  <2> QED BY <2>1, <2>2, <2>3, KeptStep
<1>8. ASSUME NEW d \in Devices, EndPass(d) PROVE KeptInv'
  <2>1. /\ UNCHANGED <<disk, cloud, calls, waived>> /\ doc'[d].entries = doc[d].entries
        /\ \A e \in Devices : e # d => doc'[e] = doc[e]
        /\ UNCHANGED doc \/ (Ghost(d) /\ doc'[d].core.timer = Delete(doc[d].core.timer))
    BY <1>8, EndPassType
  <2>2. CASE UNCHANGED doc
    BY <1>2, <2>1, <2>2
  <2>3. CASE Ghost(d) /\ doc'[d].core.timer = Delete(doc[d].core.timer)
    <3>1. Running(d) /\ \E e \in Entries(doc[d].entries) : e[1] = Timer(d).inst
      BY <2>3 DEF Ghost, StoppedEntry
    <3>2. Timer(d).inst = Instance(d)
      BY DEF Timer
    <3>3. doc[d].entries[Instance(d)].items # {}
      BY <3>1, <3>2, SeenWritten
    <3> QED BY <2>1, <2>3, <3>1, <3>3, KeptDrop
  <2> QED BY <2>1, <2>2, <2>3
<1>9. ASSUME NEW d \in Devices, NEW to \in 0..Horizon, BeginEdit(d, to) PROVE KeptInv'
  <2>1. UNCHANGED <<doc, disk, cloud, waived>>
    BY <1>9, WaitType
  <2>2. \A c \in calls' : c \in calls \/ c.kind = "edit"
    BY <1>9 DEF BeginEdit, Begin
  <2> QED BY <2>1, <2>2, KeptSame
<1>10. ASSUME NEW d \in Devices, NEW s \in Spans, BeginManual(d, s) PROVE KeptInv'
  <2>1. UNCHANGED <<doc, disk, cloud, waived>>
    BY <1>10, WaitType
  <2>2. \A c \in calls' : c \in calls \/ c.kind = "manual"
    BY <1>10 DEF BeginManual, Begin
  <2> QED BY <2>1, <2>2, KeptSame
<1>11. ASSUME NEW d \in Devices, BeginStop(d) PROVE KeptInv'
  <2>1. UNCHANGED <<doc, disk, cloud, waived>>
    BY <1>11, WaitType
  <2>2. \A c \in calls' : c \in calls \/ (c.device = d /\ c.seen = Entries(doc[d].entries))
    BY <1>11 DEF BeginStop, Begin
  <2>3. \A e \in Entries(doc[d].entries) : doc[d].entries[e[1]].items # {}
    BY SeenWritten
  <2> QED BY <2>1, <2>2, <2>3, KeptSame
<1>12. ASSUME NEW c \in calls, FinishEdit(c) PROVE KeptInv'
  <2>1. /\ c.device \in Devices /\ UNCHANGED <<disk, cloud, waived>> /\ calls' \subseteq calls
        /\ \/ UNCHANGED doc
           \/ /\ doc'[c.device].core.timer = doc[c.device].core.timer
              /\ doc'[c.device].entries = doc[c.device].entries
              /\ \A e \in Devices : e # c.device => doc'[e] = doc[e]
    BY <1>12, FinishEditType
  <2> QED BY <1>1, <1>2, <2>1
<1>13. ASSUME NEW c \in calls, FinishManual(c) PROVE KeptInv'
  <2>1. /\ c.device \in Devices /\ UNCHANGED <<disk, cloud, waived>> /\ calls' \subseteq calls
    BY <1>13, FinishManualType
  <2>2. CASE UNCHANGED doc
    BY <1>2, <2>1, <2>2
  <2>3. ASSUME NEW i \in Ids, doc'[c.device].core = doc[c.device].core,
               doc[c.device].entries[i].items \subseteq doc'[c.device].entries[i].items,
               \A j \in Ids : j # i => doc'[c.device].entries[j] = doc[c.device].entries[j],
               \A e \in Devices : e # c.device => doc'[e] = doc[e]
        PROVE  KeptInv'
    BY <1>1, <2>1, <2>3
  <2> QED
    BY <1>13, <2>2, <2>3, FinishManualType
<1>14. ASSUME NEW c \in calls, FinishStop(c) PROVE KeptInv'
  <2> DEFINE d == c.device
             i == Timer(d).inst
  <2>1. /\ d \in Devices /\ c.kind = "stop" /\ UNCHANGED <<disk, cloud, waived>>
        /\ calls' \subseteq calls
    BY <1>14, FinishStopType
  <2>2. CASE UNCHANGED doc
    BY <1>2, <2>1, <2>2
  <2>3. CASE /\ Running(d) /\ i \in Ids
             /\ doc'[d].core.timer = Delete(doc[d].core.timer)
             /\ \A e \in Devices : e # d => doc'[e] = doc[e]
             /\ \/ StoppedEntry(Timer(d), c.seen) /\ doc'[d].entries = doc[d].entries
                \/ /\ Has(doc'[d].entries[i])
                   /\ doc[d].entries[i].items \subseteq doc'[d].entries[i].items
                   /\ \A j \in Ids : j # i => doc'[d].entries[j] = doc[d].entries[j]
    <3>1. doc'[d].entries[i].items # {}
      <4>1. ASSUME StoppedEntry(Timer(d), c.seen), doc'[d].entries = doc[d].entries
            PROVE  doc'[d].entries[i].items # {}
        <5>1. PICK e \in c.seen : e[1] = i
          BY <4>1 DEF StoppedEntry
        <5>2. doc[d].entries[e[1]].items # {}
          BY <2>1, <5>1 DEF KeptInv
        <5> QED BY <4>1, <5>1, <5>2
      <4> QED BY <2>3, <4>1 DEF Has
    <3>2. Instance(d) = i
      BY DEF Timer
    <3>3. \A j \in Ids : doc[d].entries[j].items \subseteq doc'[d].entries[j].items
      BY <2>3
    <3> HIDE DEF d, i
    <3> QED BY <2>1, <2>3, <3>1, <3>2, <3>3, KeptDrop
  <2> QED
    BY <1>14, <2>2, <2>3, FinishStopType
<1>15. ASSUME NEW d \in Devices, NEW n \in Docs, Persist(d, n) PROVE KeptInv'
  <2>1. /\ UNCHANGED <<doc, cloud, calls, waived>> /\ \A e \in Devices : e # d => disk'[e] = disk[e]
        /\ n = "core" => disk'[d].core = doc[d].core /\ disk'[d].entries = disk[d].entries
        /\ n = "entries" => disk'[d].entries = doc[d].entries /\ disk'[d].core = disk[d].core
    BY <1>15, PersistType
  <2>2. KeptMonotone
    <3>1. \A i \in Ids : disk[d].entries[i].items \subseteq doc[d].entries[i].items
      BY <1>0, TimerKeys
    <3> QED BY <2>1, <3>1 DEF KeptMonotone, Docs
  <2>3. \A i \in Ids : Durable(i) => Durable(i)'
    BY <2>2, DurableStays
  <2>4. ASSUME n = "core", NEW i \in Ids, Ended(disk'[d], i) PROVE Durable(i)
    <3>1. Ended(doc[d], i)
      BY <2>1, <2>4 DEF Ended
    <3>2. disk[d].entries = doc[d].entries
      BY <1>15, <2>4 DEF Persist, Saved
    <3> QED BY <3>1, <3>2 DEF KeptInv, Durable
  <2>5. ASSUME n = "entries", NEW i \in Ids, Ended(disk'[d], i) PROVE Durable(i)
    <3>1. Ended(disk[d], i)
      BY <2>1, <2>5 DEF Ended
    <3> QED BY <3>1 DEF KeptInv
  <2>6. \A e \in Devices, i \in Ids : Ended(disk'[e], i) => Durable(i)'
    BY <2>1, <2>3, <2>4, <2>5 DEF KeptInv, Docs
  <2> QED BY <2>1, <2>3, <2>6 DEF KeptInv
<1>16. ASSUME NEW d \in Devices, Crash(d) PROVE KeptInv'
  <2>1. /\ UNCHANGED <<disk, cloud, waived>> /\ doc'[d] = disk[d] /\ calls' = calls \ InFlight(d)
        /\ \A e \in Devices : e # d => doc'[e] = doc[e]
    BY <1>16, CrashType
  <2>2. \A i \in Ids : Durable(i) <=> Durable(i)'
    BY <2>1 DEF Durable
  <2>3. \A c \in calls' : c \in calls /\ c.device \in Devices /\ c.device # d
    BY <2>1 DEF InFlight, TypeInv, RestOK, CallOK
  <2>4. \A c \in calls' : c.kind = "stop" =>
          \A e \in c.seen : doc'[c.device].entries[e[1]].items # {}
    BY <2>1, <2>3 DEF KeptInv
  <2>5. \A e \in Devices, i \in Ids :
          Ended(doc'[e], i) => Durable(i)' \/ doc'[e].entries[i].items # {}
    BY <2>1, <2>2 DEF KeptInv
  <2> QED BY <2>1, <2>2, <2>4, <2>5 DEF KeptInv
<1>17. ASSUME NEW d \in Devices, NEW n \in Docs, Exchange(d, n) PROVE KeptInv'
  <2>1. /\ UNCHANGED <<disk, calls, waived>> /\ \A e \in Devices : e # d => doc'[e] = doc[e]
        /\ n = "core" =>
             /\ doc'[d].entries = doc[d].entries /\ cloud'.entries = cloud.entries
             /\ doc'[d].core.timer = Merge(doc[d].core.timer, cloud.core.timer)
             /\ cloud'.core.timer = Merge(doc[d].core.timer, cloud.core.timer)
        /\ n = "entries" =>
             /\ doc'[d].core = doc[d].core /\ cloud'.core = cloud.core
             /\ \A i \in Ids :
                  /\ doc'[d].entries[i] = Merge(doc[d].entries[i], cloud.entries[i])
                  /\ cloud'.entries[i] = Merge(doc[d].entries[i], cloud.entries[i])
    BY <1>17, SyncType
  <2>2. /\ \A i \in Ids : doc[d].entries[i].items \subseteq doc'[d].entries[i].items
        /\ \A i \in Ids : cloud.entries[i].items \subseteq cloud'.entries[i].items
    <3>1. \A f, g : Merge(f, g).items = f.items \cup g.items
      BY DEF Merge
    <3>2. CASE n = "core"
      BY <2>1, <3>2
    <3>3. CASE n = "entries"
      <4>1. \A i \in Ids : /\ doc'[d].entries[i].items
                                 = doc[d].entries[i].items \cup cloud.entries[i].items
                           /\ cloud'.entries[i].items
                                 = doc[d].entries[i].items \cup cloud.entries[i].items
        BY <2>1, <3>1, <3>3
      <4> QED BY <4>1
    <3> QED BY <3>2, <3>3 DEF Docs
  <2>3. KeptMonotone
    BY <2>1, <2>2 DEF KeptMonotone
  <2>4. \A i \in Ids : Durable(i) => Durable(i)'
    BY <2>3, DurableStays
  <2>5. Saved(d, n)
    BY <1>17 DEF Exchange
  <2>6. ASSUME n = "core", NEW i \in Ids, Ended(doc'[d], i) \/ Ended(cloud', i) PROVE Durable(i)
    <3>1. doc[d] \in CopiesOf(doc, disk, cloud) /\ cloud \in CopiesOf(doc, disk, cloud)
      BY DEF CopiesOf
    <3>2. /\ Sound(doc[d].core.timer) /\ Sound(cloud.core.timer)
          /\ Agree(doc[d].core.timer, cloud.core.timer)
      BY <1>0, <3>1, TimerKeys
    <3>3. Ended(doc[d], i) \/ Ended(cloud, i)
      BY <2>1, <2>6, <3>2, EndedByMerge
    <3>4. disk[d].core = doc[d].core
      BY <2>5, <2>6 DEF Saved
    <3>5. Ended(doc[d], i) => Ended(disk[d], i)
      BY <3>4 DEF Ended
    <3> QED BY <3>3, <3>5 DEF KeptInv
  <2>7. n = "entries" =>
          \A i \in Ids : (Ended(doc'[d], i) <=> Ended(doc[d], i)) /\ (Ended(cloud', i) <=> Ended(cloud, i))
    BY <2>1 DEF Ended
  <2>8. \A i \in Ids : Ended(cloud', i) => Durable(i)'
    BY <2>4, <2>6, <2>7 DEF KeptInv, Docs
  <2>9. ASSUME NEW e \in Devices, NEW i \in Ids, Ended(doc'[e], i)
        PROVE  Durable(i)' \/ doc'[e].entries[i].items # {}
    <3>1. CASE e # d
      BY <2>1, <2>4, <2>9, <3>1 DEF KeptInv
    <3>2. CASE e = d /\ n = "core"
      BY <2>4, <2>6, <2>9, <3>2
    <3>3. CASE e = d /\ n = "entries"
      BY <2>2, <2>4, <2>7, <2>9, <3>3 DEF KeptInv
    <3> QED BY <3>1, <3>2, <3>3 DEF Docs
  <2>10. ASSUME NEW c \in calls', c.kind = "stop", NEW e \in c.seen
         PROVE  doc'[c.device].entries[e[1]].items # {}
    <3>1. c \in calls /\ c.device \in Devices /\ e[1] \in Ids
      BY <2>1, <2>10 DEF TypeInv, RestOK, CallOK, SeenOK
    <3>2. doc[c.device].entries[e[1]].items # {}
      BY <2>10, <3>1 DEF KeptInv
    <3> QED BY <2>1, <2>2, <3>1, <3>2
  <2>11. \A e \in Devices, i \in Ids : Ended(disk'[e], i) => Durable(i)'
    BY <2>1, <2>4 DEF KeptInv
  <2> QED BY <2>8, <2>9, <2>10, <2>11 DEF KeptInv
<1>18. CASE Tick
  BY <1>2, <1>18 DEF Tick, dataVars, ghosts
<1>19. CASE UNCHANGED vars
  BY <1>2, <1>19 DEF vars
<1> QED
  BY <1>3, <1>4, <1>5, <1>6, <1>7, <1>8, <1>9, <1>10, <1>11, <1>12, <1>13, <1>14, <1>15, <1>16,
     <1>17, <1>18, <1>19 DEF Next

\* Tracked work is never lost, whatever the tabs, crashes and sync passes: a
\* timer that is deleted in some copy became an entry in some copy, unless the
\* user cleared the timer or deleted the entry (stopTimer,
\* reconcileOrphanedTimers); as long as entries are saved before the core
\* document, and a document before it is uploaded.
THEOREM StoppedWorkIsKept == ASSUME SavedFirst PROVE Spec => []WorkIsKept
<1>1. Init => KeptInv
  <2> SUFFICES ASSUME Init PROVE KeptInv
    OBVIOUS
  <2>1. /\ \A d \in Devices : doc[d] = EmptyDocs /\ disk[d] = EmptyDocs
        /\ cloud = EmptyDocs /\ calls = {}
    BY DEF Init
  <2>2. \A i \in Ids : ~Ended(EmptyDocs, i)
    BY DEF Ended, EmptyDocs, EmptyCore, EmptyKey
  <2> QED BY <2>1, <2>2 DEF KeptInv
<1>2. TypeInv /\ KeptInv /\ [Next]_vars => KeptInv'
  BY StepKept
<1>3. TypeInv /\ KeptInv => WorkIsKept
  <2> SUFFICES ASSUME TypeInv, KeptInv, NEW i \in Ids, NEW x \in Copies, Ended(x, i), i \notin waived
               PROVE  \E y \in Copies : y.entries[i].items # {}
    BY DEF WorkIsKept
  <2>1. \A d \in Devices : disk[d].entries[i].items \subseteq doc[d].entries[i].items
    BY TimerKeys DEF TypeInv
  <2>2. cloud \in Copies /\ \A d \in Devices : doc[d] \in Copies
    BY DEF Copies
  <2>3. Durable(i) => \E y \in Copies : y.entries[i].items # {}
    BY <2>1, <2>2 DEF Durable
  <2>4. CASE x = cloud
    BY <2>3, <2>4 DEF KeptInv
  <2>5. ASSUME NEW d \in Devices, x = doc[d] PROVE \E y \in Copies : y.entries[i].items # {}
    BY <2>2, <2>3, <2>5 DEF KeptInv
  <2> QED BY <2>4, <2>5 DEF Copies
<1> QED
  BY <1>1, <1>2, <1>3, TypeInvHolds, PTL DEF Spec
=============================================================================
