---------------------------- MODULE StorageProofs ----------------------------
(* Proofs about what is kept of a device: its settings, for any identifiers, *)
(* configurations and threads, and the credentials that pairing leaves, for  *)
(* any users, devices and PINs. A device whose lookups all have an           *)
(* identifier in common has one record, in the list, in every dump of it and *)
(* in every file; while saves do not overlap, the file is complete and the   *)
(* marker tells what it holds, through crashes at any step; and credentials  *)
(* that are kept were verified with the device they name.                    *)
EXTENDS Storage, HapPairing, FiniteSetTheorems, WellFoundedInduction, TLAPS

\* A list of the one device whose lookups have shared the identifiers ids.
Held(list, ids) ==
  ids # {} => list = <<>> \/ \E r : list = <<r>> /\ ids \subseteq r.ids

\* Wherever a list or a record is kept, it is of that device.
OneDevice ==
  /\ Held(settings, common)
  /\ \A s \in Savers : Held(saves[s].dump, common)
  /\ \A i \in Inodes : Held(files[i].dump, common)
  /\ common # {} => \A u \in Editors : edits[u].at = "store" => common \subseteq edits[u].record.ids

\* The inodes that names stand for and savers write are there.
Named ==
  /\ DOMAIN files = Inodes /\ DOMAIN saves = Savers /\ DOMAIN edits = Editors
  /\ {conf, tmp, committed} \subseteq Inodes \cup {0}
  /\ \A s \in Savers : saves[s].inode \in Inodes \cup {0}
  /\ \A s \in Savers : saves[s].at \in {"none", "create"} => saves[s].inode = 0

\* Fewer identifiers in common ask for less.
LEMMA HeldByFewer ==
  ASSUME NEW list, NEW ids, Held(list, ids), NEW fewer \in SUBSET ids
  PROVE  Held(list, fewer)
  BY DEF Held

\* The lists of one record and of none.
LEMMA ShortLists ==
  ASSUME NEW r
  PROVE  /\ DOMAIN <<>> = {} /\ DOMAIN <<r>> = {1} /\ <<r>>[1] = r
         /\ Append(<<>>, r) = <<r>>
         /\ \A x : [<<r>> EXCEPT ![1] = x] = <<x>>
  OBVIOUS

\* An array without indices is the empty list.
LEMMA NoEntries ==
  ASSUME NEW f, f = [x \in 1..0 |-> f[x]]
  PROVE  f = <<>>
  BY SMT

\* retain leaves nothing, or the one record.
LEMMA RetainHeld ==
  ASSUME NEW list, NEW ids, Held(list, ids), NEW record
  PROVE  Held(Retain(list, record), ids)
<1> SUFFICES ASSUME ids # {} PROVE Retain(list, record) = <<>> \/ Retain(list, record) = list
  BY DEF Held
<1> DEFINE kept == {k \in DOMAIN list : list[k] # record}
<1>1. Retain(list, record) = [n \in 1..Cardinality(kept) |->
                                  list[CHOOSE k \in kept : Cardinality({j \in kept : j <= k}) = n]]
  BY DEF Retain
<1>2. CASE kept = {}
  <2>1. Cardinality(kept) = 0
    BY <1>2, FS_EmptySet
  <2> HIDE DEF kept
  <2>2. Retain(list, record) = [n \in 1..0 |-> Retain(list, record)[n]]
    BY <1>1, <2>1
  <2> QED BY <2>2, NoEntries
<1>3. CASE kept # {}
  <2>1. PICK r : list = <<r>>
    BY <1>3, ShortLists DEF Held
  <2>2. kept = {1} /\ {j \in kept : j <= 1} = {1}
    BY <1>3, <2>1, ShortLists
  <2>3. Cardinality({1}) = 1
    BY FS_Singleton
  <2>4. (CHOOSE k \in kept : Cardinality({j \in kept : j <= k}) = 1) = 1
    BY <2>2, <2>3
  <2> HIDE DEF kept
  <2>5. Retain(list, record) = [n \in {1} |-> list[1]]
    BY <1>1, <2>2, <2>3, <2>4
  <2> QED BY <2>1, <2>5
<1> QED BY <1>2, <1>3

\* What a lookup finds in such a list.
LEMMA Lookup ==
  ASSUME NEW ids, Held(settings, common), NEW shared \in SUBSET (common \cap ids), shared # {}
  PROVE  \/ settings = <<>> /\ Matches(ids) = {}
         \/ \E r : /\ settings = <<r>> /\ common \subseteq r.ids
                   /\ Matches(ids) = {1} /\ Found(ids) = 1 /\ settings[1] = r
<1>1. CASE settings = <<>>
  BY <1>1, ShortLists DEF Matches
<1>2. ASSUME NEW r, settings = <<r>>, common \subseteq r.ids
      PROVE  Matches(ids) = {1} /\ Found(ids) = 1 /\ settings[1] = r
  <2>1. Matches(ids) = {1} /\ settings[1] = r
    BY <1>2, ShortLists DEF Matches
  <2> QED BY <2>1 DEF Found
<1> QED BY <1>1, <1>2 DEF Held

\* File::create finds an inode that nothing uses: there is one more than names and other savers.
LEMMA InodeFree ==
  ASSUME Named, NEW s \in Savers, saves[s].at = "create"
  PROVE  \E i \in Inodes : i \notin {conf, committed} /\ \A t \in Savers : i # saves[t].inode
<1> DEFINE used == {saves[t].inode : t \in Savers}
           names == {conf, committed}
           n == Cardinality(Savers)
<1>1. n \in Nat /\ IsFiniteSet(used) /\ Cardinality(used) <= n
  <2>1. IsFiniteSet(Savers)
    BY StorageAssumption
  <2>2. [t \in Savers |-> saves[t].inode] \in Surjection(Savers, used)
    BY DEF Surjection
  <2> HIDE DEF used
  <2> QED BY <2>1, <2>2, FS_Surjection, FS_CardinalityType
<1>2. IsFiniteSet(names) /\ Cardinality(names) <= 2
  <2>1. IsFiniteSet({conf}) /\ Cardinality({conf}) = 1 /\ IsFiniteSet({committed}) /\ Cardinality({committed}) = 1
    BY FS_Singleton
  <2>2. names = {conf} \cup {committed}
    OBVIOUS
  <2>3. Cardinality({conf} \cap {committed}) \in Nat
    BY <2>1, FS_Intersection, FS_CardinalityType
  <2>4. IsFiniteSet({conf} \cup {committed})
        /\ Cardinality({conf} \cup {committed}) = 1 + 1 - Cardinality({conf} \cap {committed})
    BY <2>1, FS_Union
  <2> HIDE DEF names
  <2> QED BY <2>2, <2>3, <2>4
<1>3. IsFiniteSet(used \cup names) /\ Cardinality(used \cup names) <= n + 2
  <2>1. Cardinality(used \cap names) \in Nat /\ Cardinality(used) \in Nat /\ Cardinality(names) \in Nat
    BY <1>1, <1>2, FS_Intersection, FS_CardinalityType
  <2>2. IsFiniteSet(used \cup names)
        /\ Cardinality(used \cup names) = Cardinality(used) + Cardinality(names) - Cardinality(used \cap names)
    BY <1>1, <1>2, FS_Union
  <2> HIDE DEF used, names, n
  <2> QED BY <1>1, <1>2, <2>1, <2>2
<1>4. 0 \in used /\ 0 \notin Inodes
  BY DEF Named, Inodes
<1>5. SUFFICES ASSUME Inodes \subseteq used \cup names PROVE FALSE
  OBVIOUS
<1>6. IsFiniteSet(Inodes) /\ Cardinality(Inodes) = n + 2
  <2>1. n + 2 \in Nat /\ 1 \in Int /\ n + 2 \in Int /\ (n + 2) - 1 + 1 = n + 2
    BY <1>1
  <2> QED BY <2>1, FS_Interval DEF Inodes
<1>7. IsFiniteSet(Inodes \cup {0}) /\ Cardinality(Inodes \cup {0}) = (n + 2) + 1
  BY <1>4, <1>6, FS_AddElement
<1>8. Cardinality(Inodes \cup {0}) <= Cardinality(used \cup names)
  <2>1. Inodes \cup {0} \subseteq used \cup names
    BY <1>4, <1>5
  <2> HIDE DEF used, names
  <2> QED BY <1>3, <2>1, FS_Subset
<1>9. Cardinality(used \cup names) \in Nat
  BY <1>3, FS_CardinalityType
<1> HIDE DEF used, names, n
<1> QED BY <1>1, <1>3, <1>7, <1>8, <1>9

\* Every set of numbers has a least one.
LEMMA LeastNumber ==
  ASSUME NEW T, T \subseteq Nat, T # {}
  PROVE  \E n \in T : \A m \in T : n <= m
<1> DEFINE R == {p \in Nat \X Nat : p[1] < p[2]}
<1>1. IsWellFoundedOn(R, Nat)
  BY NatLessThanWellFounded DEF OpToRel
<1>2. \A m, n \in Nat : m < n => <<m, n>> \in R
  OBVIOUS
<1> HIDE DEF R
<1>3. PICK n \in T : \A m \in T : ~ (<<m, n>> \in R)
  BY <1>1, WFMin
<1>4. \A m \in T : n <= m
  <2> SUFFICES ASSUME NEW m \in T, m < n PROVE FALSE
    OBVIOUS
  <2>1. m \in Nat /\ n \in Nat
    OBVIOUS
  <2>2. <<m, n>> \in R
    BY <1>2, <2>1
  <2> QED BY <1>3, <2>2
<1> QED BY <1>4

\* The records up to a place that are kept are at most one more than those up to the place before.
LEMMA KeptUpTo ==
  ASSUME NEW kept, kept \subseteq Nat \ {0}, NEW m \in Nat \ {0}
  PROVE  /\ IsFiniteSet({j \in kept : j <= m}) /\ Cardinality({j \in kept : j <= m}) \in Nat
         /\ Cardinality({j \in kept : j <= m - 1}) \in Nat
         /\ m \notin kept => Cardinality({j \in kept : j <= m}) = Cardinality({j \in kept : j <= m - 1})
         /\ m \in kept => Cardinality({j \in kept : j <= m}) = Cardinality({j \in kept : j <= m - 1}) + 1
<1> DEFINE below(x) == {j \in kept : j <= x}
<1>1. ASSUME NEW x \in Nat PROVE IsFiniteSet(below(x)) /\ Cardinality(below(x)) \in Nat
  <2>1. IsFiniteSet(1..x)
    BY FS_Interval
  <2>2. ASSUME NEW j \in below(x) PROVE j \in 1..x
    <3>1. j \in kept /\ j <= x
      OBVIOUS
    <3>2. j \in Nat \ {0}
      BY <3>1
    <3> QED BY <3>1, <3>2
  <2> HIDE DEF below
  <2> QED BY <2>1, <2>2, FS_Subset, FS_CardinalityType
<1>2. m - 1 \in Nat
  OBVIOUS
<1>3. m \notin below(m - 1)
  OBVIOUS
<1>4. below(m) = IF m \in kept THEN below(m - 1) \cup {m} ELSE below(m - 1)
  <2>1. ASSUME NEW j \in kept PROVE j <= m <=> (j <= m - 1 \/ j = m)
    <3>1. j \in Nat
      OBVIOUS
    <3> QED BY <3>1
  <2>2. ASSUME NEW j PROVE j \in below(m) <=> (j \in below(m - 1) \/ (m \in kept /\ j = m))
    BY <2>1
  <2> HIDE DEF below
  <2> QED BY <2>2
<1>5. m \in kept => Cardinality(below(m)) = Cardinality(below(m - 1)) + 1
  <2> HIDE DEF below
  <2> QED BY ZenonT(60), <1>1, <1>2, <1>3, <1>4, FS_AddElement
<1>6. m \notin kept => Cardinality(below(m)) = Cardinality(below(m - 1))
  BY <1>4
<1>7. IsFiniteSet(below(m)) /\ Cardinality(below(m)) \in Nat /\ Cardinality(below(m - 1)) \in Nat
  BY <1>1, <1>2
<1> QED BY <1>5, <1>6, <1>7

\* The n-th record that is kept has a place in the list.
LEMMA NthKept ==
  ASSUME NEW kept, NEW len \in Nat, kept \subseteq 1..len, NEW n \in 1..Cardinality(kept)
  PROVE  \E k \in kept : Cardinality({j \in kept : j <= k}) = n
<1> DEFINE count(x) == Cardinality({j \in kept : j <= x})
           T == {x \in Nat : count(x) >= n}
<1>1. count(len) = Cardinality(kept) /\ count(0) = 0
  <2>1. \A j \in kept : j \in Nat /\ j <= len /\ ~(j <= 0)
    OBVIOUS
  <2>2. {j \in kept : j <= len} = kept
    BY <2>1
  <2>3. {j \in kept : j <= 0} = {}
    BY <2>1
  <2> QED BY <2>2, <2>3, FS_EmptySet
<1>2. Cardinality(kept) \in Nat
  <2>1. IsFiniteSet(1..len)
    BY FS_Interval
  <2> QED BY <2>1, FS_Subset, FS_CardinalityType
<1>3. len \in T /\ 0 \notin T
  BY <1>1, <1>2
<1>4. PICK k \in T : \A x \in T : k <= x
  <2>1. T \subseteq Nat /\ T # {}
    BY <1>3
  <2> HIDE DEF T
  <2> QED BY <2>1, LeastNumber
<1>5. k \in Nat \ {0} /\ k - 1 \in Nat /\ k - 1 \notin T /\ count(k) >= n
  <2>1. k \in Nat /\ count(k) >= n
    BY <1>3
  <2>2. k # 0
    BY <1>3
  <2>3. \A x \in T : x \in Nat
    OBVIOUS
  <2> HIDE DEF T, count
  <2> QED BY <1>4, <2>1, <2>2, <2>3
<1>6. ~(count(k - 1) >= n)
  <2> HIDE DEF count
  <2> QED BY <1>5
<1>7. kept \subseteq Nat \ {0}
  OBVIOUS
<1>8. /\ count(k) \in Nat /\ count(k - 1) \in Nat
      /\ k \notin kept => count(k) = count(k - 1)
      /\ k \in kept => count(k) = count(k - 1) + 1
  BY ONLY <1>5, <1>7, KeptUpTo
<1> HIDE DEF count, T
<1>9. k \in kept /\ count(k) = n
  BY <1>2, <1>5, <1>6, <1>8
<1> QED BY <1>9 DEF count

\* retain gives a list of what the list had, without the record.
LEMMA RetainList ==
  ASSUME NEW S, NEW list \in Seq(S), NEW record
  PROVE  Retain(list, record) \in Seq(S \ {record})
<1> DEFINE kept == {k \in DOMAIN list : list[k] # record}
           place(n) == CHOOSE k \in kept : Cardinality({j \in kept : j <= k}) = n
<1>1. kept \subseteq 1..Len(list) /\ Len(list) \in Nat
  OBVIOUS
<1>2. Cardinality(kept) \in Nat
  <2>1. IsFiniteSet(1..Len(list))
    BY FS_Interval
  <2> HIDE DEF kept
  <2> QED BY <1>1, <2>1, FS_Subset, FS_CardinalityType
<1>3. ASSUME NEW n \in 1..Cardinality(kept) PROVE place(n) \in kept
  <2> HIDE DEF kept
  <2> QED BY <1>1, NthKept
<1>4. \A k \in kept : list[k] \in S \ {record}
  OBVIOUS
<1>5. Retain(list, record) = [n \in 1..Cardinality(kept) |-> list[place(n)]]
  BY DEF Retain
<1> HIDE DEF kept, place
<1> QED BY <1>2, <1>3, <1>4, <1>5
-----------------------------------------------------------------------------
\* What is about the names and inodes.
LEMMA NamedStarts == StorageInit => Named
  BY DEF StorageInit, Named, NoSave

\* Files are created where nothing is, and names are given to what was created.
LEMMA NamedSteps == Named /\ [StorageNext]_storageVars => Named'
<1> SUFFICES ASSUME Named, [StorageNext]_storageVars PROVE Named'
  OBVIOUS
<1> USE DEF Named
<1>1. ASSUME NEW u \in Editors, Edits(u) PROVE Named'
  <2>1. UNCHANGED <<saves, diskVars>> /\ DOMAIN edits' = Editors
    BY <1>1 DEF Edits, Get, Pairs, Store, RemoveRecord, Forgets, Edit
  <2> QED BY <2>1 DEF diskVars
<1>2. ASSUME NEW s \in Savers, Save(s) PROVE Named'
  BY <1>2 DEF Save, diskVars, coreVars
<1>3. ASSUME NEW s \in Savers, CreateTmp(s) PROVE Named'
  <2>1. tmp' \in Inodes
    BY <1>3, InodeFree DEF CreateTmp
  <2>2. /\ DOMAIN files' = Inodes /\ saves' = [saves EXCEPT ![s].at = "write", ![s].inode = tmp']
        /\ UNCHANGED <<coreVars, conf, committed>>
    BY <1>3 DEF CreateTmp
  <2>3. DOMAIN saves' = Savers
    BY <2>2
  <2>4. \A t \in Savers : IF t = s THEN saves'[t].at = "write" /\ saves'[t].inode = tmp'
                          ELSE saves'[t] = saves[t]
    BY <1>3, <2>2 DEF CreateTmp
  <2> QED BY <2>1, <2>2, <2>3, <2>4 DEF coreVars
<1>4. ASSUME NEW s \in Savers, Write(s) PROVE Named'
  <2>1. PICK to \in {"finish", "sync"} : saves' = [saves EXCEPT ![s].at = to]
    BY <1>4 DEF Write, WritePiece, At
  <2>2. UNCHANGED <<edits, conf, tmp, committed>> /\ DOMAIN files' = Inodes
    BY <1>4 DEF Write, WritePiece, coreVars
  <2> QED BY <2>1, <2>2
<1>5. ASSUME NEW s \in Savers, Sync(s) PROVE Named'
  BY <1>5 DEF Sync, At, coreVars
<1>6. ASSUME NEW s \in Savers, WriteFails(s) PROVE Named'
  BY <1>6 DEF WriteFails, Ends, NoSave, coreVars
<1>7. ASSUME NEW s \in Savers, Rename(s) PROVE Named'
  BY <1>7 DEF Rename, At, coreVars
<1>8. ASSUME NEW s \in Savers, MarkSaved(s) PROVE Named'
  BY <1>8 DEF MarkSaved, Ends, NoSave, diskVars
<1>9. CASE Commit
  BY <1>9 DEF Commit, coreVars
<1>10. CASE Crash
  BY <1>10 DEF Crash, NoSave
<1>11. CASE UNCHANGED storageVars
  BY <1>11 DEF storageVars, coreVars, diskVars
<1> QED BY <1>1, <1>2, <1>3, <1>4, <1>5, <1>6, <1>7, <1>8, <1>9, <1>10, <1>11 DEF StorageNext, SaveStep

\* An empty list is of any device.
LEMMA NothingHeld == \A ids : Held(<<>>, ids)
  BY DEF Held

\* Nothing is stored at first.
LEMMA OneDeviceStarts == StorageInit => OneDevice
  BY NothingHeld DEF StorageInit, OneDevice, NoSave, NoEdit, Empty, File

\* Only looking up and pairing take identifiers from those in common.
LEMMA OneDeviceElsewhere ==
  ASSUME OneDevice, NEW fewer \in SUBSET common
  PROVE  /\ \A s \in Savers : Held(saves[s].dump, fewer)
         /\ \A i \in Inodes : Held(files[i].dump, fewer)
  BY HeldByFewer DEF OneDevice

\* No thread adds a second record of the device, and no crash brings one back.
LEMMA OneDeviceSteps == Named /\ OneDevice /\ [StorageNext]_storageVars => OneDevice'
<1> SUFFICES ASSUME Named, OneDevice, [StorageNext]_storageVars PROVE OneDevice'
  OBVIOUS
<1>1. ASSUME NEW u \in Editors, NEW c \in Configs, NEW then \in {"read", "store"}, Get(u, c, then)
      PROVE  OneDevice'
  <2>1. common' = common \cap c.ids /\ UNCHANGED <<saves, files>>
    BY <1>1 DEF Get, diskVars
  <2>2. \A s \in Savers : Held(saves'[s].dump, common')
    BY <2>1, OneDeviceElsewhere
  <2>3. \A i \in Inodes : Held(files'[i].dump, common')
    BY <2>1, OneDeviceElsewhere
  <2>4. SUFFICES ASSUME common' # {}
                 PROVE  /\ Held(settings', common')
                        /\ \A v \in Editors : edits'[v].at = "store" => common' \subseteq edits'[v].record.ids
    BY <2>2, <2>3 DEF OneDevice, Held
  <2>5. PICK record : /\ Edit(u, then, record) /\ Held(settings', common')
                      /\ common' \subseteq record.ids
    <3>1. CASE settings = <<>> /\ Matches(c.ids) = {}
      <4>1. settings' = <<Fresh(c)>> /\ Edit(u, then, Fresh(c))
        BY <1>1, <3>1, ShortLists DEF Get
      <4>2. common' \subseteq Fresh(c).ids
        BY <2>1 DEF Fresh, Updated
      <4> QED BY <4>1, <4>2 DEF Held
    <3>2. ASSUME NEW r, settings = <<r>>, common \subseteq r.ids, Matches(c.ids) = {1}, Found(c.ids) = 1, settings[1] = r
          PROVE  \E record : /\ Edit(u, then, record) /\ Held(settings', common')
                             /\ common' \subseteq record.ids
      <4>1. settings' = settings /\ Edit(u, then, IF then = "store" THEN Updated(r, c) ELSE r)
        BY <1>1, <3>2 DEF Get
      <4>2. common' \subseteq (IF then = "store" THEN Updated(r, c) ELSE r).ids
        BY <2>1, <3>2 DEF Updated
      <4>3. Held(settings', common')
        BY <2>1, <3>2, <4>1 DEF Held
      <4> QED BY <4>1, <4>2, <4>3
    <3>3. Held(settings, common)
      BY DEF OneDevice
    <3>4. \/ settings = <<>> /\ Matches(c.ids) = {}
          \/ \E r : /\ settings = <<r>> /\ common \subseteq r.ids
                    /\ Matches(c.ids) = {1} /\ Found(c.ids) = 1 /\ settings[1] = r
      BY <2>1, <2>4, <3>3, Lookup
    <3> QED BY <3>1, <3>2, <3>4
  <2>6. edits' = [edits EXCEPT ![u] = [at |-> then, record |-> record]]
    BY <2>5 DEF Edit
  <2>7. ASSUME NEW v \in Editors, edits'[v].at = "store" PROVE common' \subseteq edits'[v].record.ids
    <3>1. CASE v = u
      BY <2>5, <2>6, <3>1 DEF Named
    <3>2. CASE v # u
      BY <2>1, <2>4, <2>6, <2>7, <3>2 DEF Named, OneDevice
    <3> QED BY <3>1, <3>2
  <2> QED BY <2>5, <2>7
<1>2. ASSUME NEW u \in Editors, NEW id \in Paired, NEW given \in Credentials, Pairs(u, id, given)
      PROVE  OneDevice'
  <2>1. common' = common \cap {id} /\ UNCHANGED <<settings, saves, files>>
    BY <1>2 DEF Pairs, diskVars
  <2>2. \A s \in Savers : Held(saves'[s].dump, common')
    BY <2>1, OneDeviceElsewhere
  <2>3. \A i \in Inodes : Held(files'[i].dump, common')
    BY <2>1, OneDeviceElsewhere
  <2>4. Held(settings', common')
    BY <2>1, HeldByFewer DEF OneDevice
  <2>5. SUFFICES ASSUME common' # {}, NEW v \in Editors, edits'[v].at = "store"
                 PROVE  common' \subseteq edits'[v].record.ids
    BY <2>2, <2>3, <2>4 DEF OneDevice
  <2>6. PICK ids : /\ ids = IF Matches({id}) = {} THEN {id} ELSE settings[Found({id})].ids
                   /\ edits' = [edits EXCEPT ![u] =
                                   [at |-> "store", record |-> [ids |-> ids, credentials |-> given]]]
    BY <1>2 DEF Pairs, Edit
  <2>7. common' \subseteq ids
    <3>1. Held(settings, common)
      BY DEF OneDevice
    <3> QED BY <2>1, <2>5, <2>6, <3>1, Lookup
  <2>8. CASE v = u
    BY <2>6, <2>7, <2>8 DEF Named
  <2>9. CASE v # u
    BY <2>1, <2>5, <2>6, <2>9 DEF Named, OneDevice
  <2> QED BY <2>8, <2>9
<1>3. ASSUME NEW u \in Editors, Store(u) PROVE OneDevice'
  <2>1. /\ edits[u].at = "store" /\ StoreRecord(edits[u].record)
        /\ edits' = [edits EXCEPT ![u] = NoEdit] /\ UNCHANGED <<common, saves, files>>
    BY <1>3 DEF Store, diskVars
  <2>2. Held(settings', common')
    <3>1. SUFFICES ASSUME common # {} PROVE \E r : settings' = <<r>> /\ common \subseteq r.ids
      BY <2>1 DEF Held
    <3>2. common \subseteq edits[u].record.ids /\ Held(settings, common)
      BY <2>1, <3>1 DEF OneDevice
    <3>3. \/ settings = <<>> /\ Matches(edits[u].record.ids) = {}
          \/ \E r : settings = <<r>> /\ Matches(edits[u].record.ids) = {1} /\ Found(edits[u].record.ids) = 1
      BY <3>1, <3>2, Lookup
    <3>4. settings' = <<edits[u].record>>
      BY <2>1, <3>3, ShortLists DEF StoreRecord
    <3> QED BY <3>2, <3>4
  <2>3. \A v \in Editors : edits'[v].at = "store" => edits[v] = edits'[v]
    BY <2>1 DEF Named, NoEdit
  <2> QED BY <2>1, <2>2, <2>3 DEF OneDevice
<1>4. ASSUME NEW u \in Editors, RemoveRecord(u) \/ Forgets(u) PROVE OneDevice'
  <2>1. /\ edits' = [edits EXCEPT ![u] = NoEdit] /\ UNCHANGED <<common, saves, files>>
        /\ settings' = Retain(settings, edits[u].record) \/ settings' = settings
    BY <1>4 DEF RemoveRecord, Forgets, diskVars
  <2>2. Held(settings', common')
    BY <2>1, RetainHeld DEF OneDevice
  <2>3. \A v \in Editors : edits'[v].at = "store" => edits[v] = edits'[v]
    BY <2>1 DEF Named, NoEdit
  <2> QED BY <2>1, <2>2, <2>3 DEF OneDevice
<1>5. ASSUME NEW s \in Savers, Save(s) PROVE OneDevice'
  <2>1. UNCHANGED <<settings, edits, common, files>>
        /\ saves' = [saves EXCEPT ![s] = [at |-> "create", dump |-> settings, inode |-> 0]]
    BY <1>5 DEF Save, coreVars, diskVars
  <2>2. \A t \in Savers : Held(saves'[t].dump, common')
    BY <2>1 DEF OneDevice, Named
  <2> QED BY <2>1, <2>2 DEF OneDevice
<1>6. ASSUME NEW s \in Savers, CreateTmp(s) PROVE OneDevice'
  <2>1. UNCHANGED <<settings, edits, common>> /\ files' = [files EXCEPT ![tmp'] = Empty]
        /\ saves' = [saves EXCEPT ![s].at = "write", ![s].inode = tmp']
    BY <1>6 DEF CreateTmp, coreVars
  <2>2. \A t \in Savers : saves'[t].dump = saves[t].dump
    BY <2>1 DEF Named
  <2>3. \A i \in Inodes : files'[i].dump = files[i].dump \/ files'[i].dump = <<>>
    BY <2>1 DEF Named, Empty, File
  <2> QED BY <2>1, <2>2, <2>3, NothingHeld DEF OneDevice
<1>7. ASSUME NEW s \in Savers, Write(s) PROVE OneDevice'
  <2>1. PICK from, to, piece : WritePiece(s, from, to, piece)
    BY <1>7 DEF Write
  <2>2. /\ UNCHANGED <<settings, edits, common>> /\ saves' = [saves EXCEPT ![s].at = to]
        /\ files' = [files EXCEPT ![saves[s].inode] = Written(files[saves[s].inode], saves[s].dump, piece)]
    BY <2>1 DEF WritePiece, At, coreVars
  <2>3. \A t \in Savers : saves'[t].dump = saves[t].dump
    BY <2>2 DEF Named
  <2>4. \A i \in Inodes : files'[i].dump \in {files[i].dump, saves[s].dump, <<>>}
    <3>1. \A file : Written(file, saves[s].dump, piece).dump \in {file.dump, saves[s].dump, <<>>}
      BY DEF Written, File, Torn
    <3> QED BY <2>2, <3>1 DEF Named
  <2> QED BY <2>2, <2>3, <2>4, NothingHeld DEF OneDevice
<1>8. ASSUME NEW s \in Savers, Sync(s) \/ Rename(s) PROVE OneDevice'
  <2>1. UNCHANGED <<settings, edits, common, files>> /\ \A t \in Savers : saves'[t].dump = saves[t].dump
    <3>1. \E at : saves' = [saves EXCEPT ![s].at = at]
      BY <1>8 DEF Sync, Rename, At
    <3>2. \A t \in Savers : saves'[t].dump = saves[t].dump
      BY <3>1 DEF Named
    <3> QED BY <1>8, <3>2 DEF Sync, Rename, coreVars
  <2> QED BY <2>1 DEF OneDevice
<1>9. ASSUME NEW s \in Savers, WriteFails(s) \/ MarkSaved(s) PROVE OneDevice'
  <2>1. UNCHANGED <<settings, edits, common, files>>
        /\ \A t \in Savers : saves'[t].dump \in {saves[t].dump, <<>>}
    BY <1>9 DEF WriteFails, MarkSaved, Ends, NoSave, coreVars, diskVars, Named
  <2> QED BY <2>1, NothingHeld DEF OneDevice
<1>10. CASE Commit
  BY <1>10 DEF Commit, coreVars, OneDevice
<1>11. CASE Crash
  <2>1. /\ common' = common /\ edits' = [u \in Editors |-> NoEdit] /\ saves' = [s \in Savers |-> NoSave]
        /\ settings' = IF conf' = 0 THEN <<>> ELSE files'[conf'].dump
        /\ conf' \in Inodes \cup {0}
    BY <1>11 DEF Crash, Named
  <2>2. \A i \in Inodes : files'[i].dump = files[i].dump
    BY <1>11 DEF Crash, File
  <2>3. \A i \in Inodes : Held(files'[i].dump, common')
    BY <2>1, <2>2 DEF OneDevice
  <2>4. Held(settings', common')
    BY <2>1, <2>3, NothingHeld
  <2> QED BY <2>1, <2>3, <2>4, NothingHeld DEF OneDevice, NoEdit, NoSave
<1>12. CASE UNCHANGED storageVars
  BY <1>12 DEF storageVars, coreVars, diskVars, OneDevice
<1> QED
  BY <1>1, <1>2, <1>3, <1>4, <1>5, <1>6, <1>7, <1>8, <1>9, <1>10, <1>11, <1>12
  DEF StorageNext, Edits, SaveStep

\* core.rs:149: however many threads look up, update, pair and remove a device, in one hold of the
\* lock or two, and whichever dump a crash brings back: there is one record of it, as long as every
\* lookup and pairing has had an identifier in common with all the others.
THEOREM DeviceHasOneRecord == StorageSpec => []OneRecordPerDevice
<1>1. OneDevice => OneRecordPerDevice
  <2> SUFFICES ASSUME OneDevice, common # {},
                      NEW k \in DOMAIN settings, NEW l \in DOMAIN settings
               PROVE  k = l
    BY DEF OneRecordPerDevice
  <2> QED BY ShortLists DEF OneDevice, Held
<1> QED BY <1>1, NamedStarts, NamedSteps, OneDeviceStarts, OneDeviceSteps, PTL DEF StorageSpec
-----------------------------------------------------------------------------
\* No save begins before the one under way has ended.
SavesTakeTurns ==
  \A s, t \in Savers : saves[s].at # "none" /\ saves[t].at # "none" => s = t

\* What the file of a save holds at each of its steps.
OwnFile(s) ==
  LET save == saves[s]
  IN  /\ save.at \in {"write", "finish", "sync", "rename"} => tmp # 0 /\ save.inode = tmp
      /\ save.at = "write" => files[tmp] = Empty
      /\ save.at = "finish" => files[tmp] = File(save.dump, 1)
      /\ save.at \in {"sync", "rename"} => files[tmp] = File(save.dump, Complete)
      /\ save.at = "rename" => tmp \in synced
      /\ save.at = "mark" => conf # 0 /\ files[conf].dump = save.dump

\* The sibling is a file of its own, and what has the name of the settings file is complete.
Atomic ==
  /\ \A s \in Savers : saves[s].at \in {"none", "create", "write", "finish", "sync", "rename", "mark"}
  /\ \A s \in Savers : OwnFile(s)
  /\ tmp # 0 => tmp \notin {conf, committed}
  /\ \A i \in Inodes : files[i].pieces \in 0..Complete
  /\ FileComplete
  /\ MarkerTruthful

\* The step of a saver finds all the others at rest.
LEMMA OthersRest ==
  ASSUME SavesTakeTurns, NEW s \in Savers, saves[s].at # "none", NEW t \in Savers, t # s
  PROVE  saves[t].at = "none"
  BY DEF SavesTakeTurns

\* No file, nothing remembered.
LEMMA AtomicStarts == StorageInit => Atomic
  BY DEF StorageInit, Atomic, OwnFile, FileComplete, MarkerTruthful, NoSave, Empty, File, Complete

\* Every step of a save keeps its promise, and a crash after it does.
LEMMA AtomicSteps == Named /\ Atomic /\ SavesTakeTurns /\ [StorageNext]_storageVars => Atomic'
<1> SUFFICES ASSUME Named, Atomic, SavesTakeTurns, [StorageNext]_storageVars PROVE Atomic'
  OBVIOUS
<1>0. ASSUME UNCHANGED <<saves, saved, diskVars>> PROVE Atomic'
  BY <1>0 DEF diskVars, Atomic, OwnFile, FileComplete, MarkerTruthful
<1>1. ASSUME NEW u \in Editors, Edits(u) PROVE Atomic'
  BY <1>0, <1>1 DEF Edits, Get, Pairs, Store, RemoveRecord, Forgets
<1>2. ASSUME NEW s \in Savers, Save(s) PROVE Atomic'
  <2>1. /\ saves[s] = NoSave /\ UNCHANGED <<saved, diskVars>>
        /\ saves' = [saves EXCEPT ![s] = [at |-> "create", dump |-> settings, inode |-> 0]]
    BY <1>2 DEF Save, coreVars
  <2>2. saves'[s].at = "create" /\ \A t \in Savers : t # s => saves'[t] = saves[t]
    BY <2>1 DEF Named
  <2>3. \A t \in Savers : OwnFile(t)'
    BY <2>1, <2>2 DEF Atomic, OwnFile, diskVars
  <2>4. MarkerTruthful'
    BY <2>1, <2>2 DEF Atomic, MarkerTruthful, NoSave, diskVars
  <2> QED BY <2>1, <2>2, <2>3, <2>4 DEF Atomic, FileComplete, diskVars
<1>3. ASSUME NEW s \in Savers, CreateTmp(s) PROVE Atomic'
  <2>1. tmp' \in Inodes /\ tmp' # 0 /\ tmp' \notin {conf, committed} /\ saves[s].at = "create"
    <3>1. CASE tmp # 0
      BY <1>3, <3>1 DEF CreateTmp, Named, Atomic
    <3>2. CASE tmp = 0
      BY <1>3, <3>2, InodeFree DEF CreateTmp, Named, Inodes
    <3> QED BY <3>1, <3>2
  <2>2. /\ files' = [files EXCEPT ![tmp'] = Empty] /\ synced' = synced \ {tmp'}
        /\ saves' = [saves EXCEPT ![s].at = "write", ![s].inode = tmp']
        /\ UNCHANGED <<saved, conf, committed>>
    BY <1>3 DEF CreateTmp, coreVars
  <2>3. saves'[s].at = "write" /\ saves'[s].inode = tmp' /\ \A t \in Savers : t # s => saves'[t] = saves[t]
    BY <2>2 DEF Named
  <2>4. /\ files'[tmp'] = Empty
        /\ \A i \in Inodes : i # tmp' => files'[i] = files[i]
    BY <2>1, <2>2 DEF Named
  <2>5. \A t \in Savers : t # s => saves'[t].at = "none"
    BY <2>1, <2>3, OthersRest
  <2>6. \A t \in Savers : OwnFile(t)'
    BY <2>1, <2>3, <2>4, <2>5 DEF OwnFile
  <2>7. \A i \in Inodes : files'[i].pieces \in 0..Complete
    BY <2>4 DEF Atomic, Empty, File, Complete
  <2>8. FileComplete'
    BY <2>1, <2>2, <2>4 DEF Atomic, FileComplete, Named
  <2>9. MarkerTruthful'
    BY <2>1, <2>2, <2>3, <2>4, <2>5, OthersRest DEF Atomic, MarkerTruthful, Named
  <2>10. \A t \in Savers : saves'[t].at \in {"none", "write"}
    BY <2>3, <2>5
  <2> QED BY <2>1, <2>2, <2>6, <2>7, <2>8, <2>9, <2>10 DEF Atomic
<1>4. ASSUME NEW s \in Savers, Write(s) PROVE Atomic'
  <2> DEFINE piece == IF saves[s].at = "write" THEN 1 ELSE Complete
             to == IF saves[s].at = "write" THEN "finish" ELSE "sync"
  <2>1. /\ piece \in {1, Complete} /\ to = IF piece = 1 THEN "finish" ELSE "sync"
        /\ saves[s].at = IF piece = 1 THEN "write" ELSE "finish"
        /\ files' = [files EXCEPT ![saves[s].inode] = Written(files[saves[s].inode], saves[s].dump, piece)]
        /\ saves' = [saves EXCEPT ![s].at = to]
        /\ synced' = synced \ {saves[s].inode}
        /\ UNCHANGED <<saved, conf, committed, tmp>>
    BY <1>4 DEF Write, WritePiece, At, coreVars, Complete
  <2> HIDE DEF piece, to
  <2>2. saves[s].inode = tmp /\ tmp # 0 /\ tmp \in Inodes
    BY <2>1 DEF Atomic, OwnFile, Named
  <2>3. files[tmp] = IF piece = 1 THEN Empty ELSE File(saves[s].dump, 1)
    BY <2>1 DEF Atomic, OwnFile
  <2>4. Written(files[tmp], saves[s].dump, piece) = File(saves[s].dump, piece)
    BY <2>1, <2>3 DEF Written, Empty, File, Complete
  <2>5. /\ files'[tmp] = File(saves[s].dump, piece)
        /\ \A i \in Inodes : i # tmp => files'[i] = files[i]
    BY <2>1, <2>2, <2>4 DEF Named
  <2>6. /\ saves'[s].at = to /\ saves'[s].dump = saves[s].dump /\ saves'[s].inode = tmp
        /\ \A t \in Savers : t # s => saves'[t] = saves[t]
    BY <2>1, <2>2 DEF Named
  <2>7. \A t \in Savers : t # s => saves'[t].at = "none"
    BY <2>1, <2>6, OthersRest
  <2>8. \A t \in Savers : OwnFile(t)'
    BY <2>1, <2>2, <2>5, <2>6, <2>7 DEF OwnFile, Complete
  <2>9. \A i \in Inodes : files'[i].pieces \in 0..Complete
    BY <2>1, <2>5 DEF Atomic, File, Complete
  <2>10. FileComplete'
    BY <2>1, <2>2, <2>5 DEF Atomic, FileComplete, Named
  <2>11. MarkerTruthful'
    BY <2>1, <2>2, <2>5, <2>6, <2>7, OthersRest DEF Atomic, MarkerTruthful, Named
  <2>12. \A t \in Savers : saves'[t].at \in {"none", "finish", "sync"}
    BY <2>1, <2>6, <2>7
  <2> QED BY <2>1, <2>8, <2>9, <2>10, <2>11, <2>12 DEF Atomic
<1>5. ASSUME NEW s \in Savers, Sync(s) PROVE Atomic'
  <2>1. /\ saves[s].at = "sync" /\ synced' = synced \cup {saves[s].inode}
        /\ saves' = [saves EXCEPT ![s].at = "rename"]
        /\ UNCHANGED <<saved, conf, committed, tmp, files>>
    BY <1>5 DEF Sync, At, coreVars
  <2>2. /\ saves'[s].at = "rename" /\ saves'[s].dump = saves[s].dump /\ saves'[s].inode = saves[s].inode
        /\ \A t \in Savers : t # s => saves'[t] = saves[t]
    BY <2>1 DEF Named
  <2>3. \A t \in Savers : t # s => saves'[t].at = "none"
    BY <2>1, <2>2, OthersRest
  <2>4. \A t \in Savers : OwnFile(t)'
    BY <2>1, <2>2, <2>3 DEF Atomic, OwnFile
  <2>5. FileComplete' /\ MarkerTruthful'
    BY <2>1, <2>2, <2>3, OthersRest DEF Atomic, FileComplete, MarkerTruthful
  <2>6. \A t \in Savers : saves'[t].at \in {"none", "rename"}
    BY <2>2, <2>3
  <2> QED BY <2>1, <2>4, <2>5, <2>6 DEF Atomic
<1>6. ASSUME NEW s \in Savers, WriteFails(s) PROVE Atomic'
  <2>1. /\ saves[s].at \in {"create", "write", "finish", "sync", "rename"}
        /\ tmp' \in {tmp, 0} /\ saves' = [saves EXCEPT ![s] = NoSave]
        /\ UNCHANGED <<saved, conf, committed, files, synced>>
    BY <1>6 DEF WriteFails, Ends, coreVars
  <2>2. \A t \in Savers : saves'[t].at = "none"
    BY <2>1, OthersRest DEF Named, NoSave
  <2>3. \A t \in Savers : saves[t].at # "mark"
    BY <2>1, OthersRest
  <2>4. \A t \in Savers : OwnFile(t)'
    BY <2>2 DEF OwnFile
  <2> QED BY <2>1, <2>2, <2>3, <2>4 DEF Atomic, FileComplete, MarkerTruthful
<1>7. ASSUME NEW s \in Savers, Rename(s) PROVE Atomic'
  <2>1. /\ saves[s].at = "rename" /\ tmp # 0 /\ conf' = tmp /\ tmp' = 0
        /\ saves' = [saves EXCEPT ![s].at = "mark"]
        /\ UNCHANGED <<saved, committed, files, synced>>
    BY <1>7 DEF Rename, At, coreVars
  <2>2. /\ saves'[s].at = "mark" /\ saves'[s].dump = saves[s].dump
        /\ \A t \in Savers : t # s => saves'[t] = saves[t]
    BY <2>1 DEF Named
  <2>3. \A t \in Savers : t # s => saves'[t].at = "none"
    BY <2>1, <2>2, OthersRest
  <2>4. files[tmp] = File(saves[s].dump, Complete) /\ tmp \in synced
    BY <2>1 DEF Atomic, OwnFile
  <2>5. \A t \in Savers : OwnFile(t)'
    BY <2>1, <2>2, <2>3, <2>4 DEF OwnFile, File
  <2>6. FileComplete' /\ MarkerTruthful'
    BY <2>1, <2>2, <2>4 DEF Atomic, FileComplete, MarkerTruthful, File
  <2>7. \A t \in Savers : saves'[t].at \in {"none", "mark"}
    BY <2>2, <2>3
  <2> QED BY <2>1, <2>5, <2>6, <2>7 DEF Atomic
<1>8. ASSUME NEW s \in Savers, MarkSaved(s) PROVE Atomic'
  <2>1. /\ saves[s].at = "mark" /\ saved' = <<saves[s].dump>> /\ saves' = [saves EXCEPT ![s] = NoSave]
        /\ UNCHANGED <<conf, tmp, committed, files, synced>>
    BY <1>8 DEF MarkSaved, Ends, diskVars
  <2>2. \A t \in Savers : saves'[t].at = "none"
    BY <2>1, OthersRest DEF Named, NoSave
  <2>3. \A t \in Savers : OwnFile(t)'
    BY <2>2 DEF OwnFile
  <2>4. saved' = <<files[conf].dump>> /\ conf # 0
    BY <2>1 DEF Atomic, OwnFile
  <2> QED BY <2>1, <2>2, <2>3, <2>4 DEF Atomic, FileComplete, MarkerTruthful
<1>9. CASE Commit
  <2>1. committed' = conf /\ UNCHANGED <<saved, saves, conf, tmp, files, synced>>
    BY <1>9 DEF Commit, coreVars
  <2> QED BY <2>1 DEF Atomic, OwnFile, FileComplete, MarkerTruthful
<1>10. CASE Crash
  <2>1. /\ conf' \in {conf, committed} /\ committed' = conf'
        /\ tmp' = IF conf' = conf THEN tmp ELSE conf
        /\ synced' = Inodes /\ saves' = [s \in Savers |-> NoSave]
        /\ saved' = IF conf' = 0 THEN <<>> ELSE <<files'[conf'].dump>>
    BY <1>10 DEF Crash
  <2>2. \A i \in Inodes : /\ files'[i].pieces \in 0..Complete
                          /\ i \in synced => files'[i] = files[i]
    <3>1. PICK onDisk \in [Inodes \ synced -> 0..Complete] :
             files' = [i \in Inodes |-> IF i \in synced THEN files[i]
                                        ELSE File(files[i].dump, onDisk[i])]
      BY <1>10 DEF Crash
    <3> QED BY <3>1 DEF Atomic, File
  <2>3. \A t \in Savers : saves'[t].at = "none"
    BY <2>1 DEF NoSave
  <2>4. \A t \in Savers : OwnFile(t)'
    BY <2>3 DEF OwnFile
  <2>5. conf' \in Inodes => conf' \in synced /\ files[conf'].pieces = Complete
    <3>1. 0 \notin Inodes
      BY DEF Inodes
    <3> QED BY <2>1, <3>1 DEF Atomic, FileComplete, Named
  <2>6. conf' \in Inodes \cup {0}
    BY <2>1 DEF Named
  <2>7. FileComplete' /\ MarkerTruthful'
    BY <2>1, <2>2, <2>5, <2>6 DEF FileComplete, MarkerTruthful
  <2>8. tmp' # 0 => tmp' \notin {conf', committed'}
    BY <2>1 DEF Atomic
  <2> QED BY <2>2, <2>3, <2>4, <2>7, <2>8 DEF Atomic
<1>11. CASE UNCHANGED storageVars
  BY <1>0, <1>11 DEF storageVars, coreVars
<1> QED BY <1>1, <1>2, <1>3, <1>4, <1>5, <1>6, <1>7, <1>8, <1>9, <1>10, <1>11 DEF StorageNext, SaveStep

\* file.rs:126: with any number of threads that save, as long as no two saves overlap, a crash between
\* any two steps of one leaves a complete dump, or no file, under the name of the settings file.
THEOREM SavesAreAtomic == StorageSpec /\ []SavesTakeTurns => []FileComplete
<1>1. Atomic => FileComplete
  BY DEF Atomic
<1> QED BY <1>1, NamedStarts, NamedSteps, AtomicStarts, AtomicSteps, PTL DEF StorageSpec

\* core.rs:132: then what is remembered as saved is what the file holds, so that the next save skips
\* no change.
THEOREM MarkerTellsTheFile == StorageSpec /\ []SavesTakeTurns => []MarkerTruthful
<1>1. Atomic => MarkerTruthful
  BY DEF Atomic
<1> QED BY <1>1, NamedStarts, NamedSteps, AtomicStarts, AtomicSteps, PTL DEF StorageSpec

\* What an editor, a saver and a file have.
Edited == [at : {"none", "read", "store"}, record : Records]
Saving == [at : {"none", "create", "write", "finish", "sync", "rename", "mark"}, dump : Seq(Records),
           inode : Inodes \cup {0}]
Content == [dump : Seq(Records), pieces : 0..Complete]

\* A saver that has created its file has it open.
StorageTyped ==
  /\ settings \in Seq(Records) /\ edits \in [Editors -> Edited]
  /\ saves \in [Savers -> Saving] /\ \A s \in Savers : saves[s].at \notin {"none", "create"} => saves[s].inode # 0
  /\ {conf, tmp, committed} \subseteq Inodes \cup {0}
  /\ files \in [Inodes -> Content] /\ synced \subseteq Inodes

\* The first record that matches is one of the list.
LEMMA FoundIsThere ==
  ASSUME settings \in Seq(Records), NEW ids, Matches(ids) # {}
  PROVE  Found(ids) \in 1..Len(settings) /\ settings[Found(ids)] \in Records
<1>1. Matches(ids) \subseteq 1..Len(settings) /\ Matches(ids) \subseteq Nat
  BY DEF Matches
<1>2. \E k \in Matches(ids) : \A l \in Matches(ids) : k <= l
  BY <1>1, LeastNumber
<1>3. Found(ids) \in Matches(ids)
  BY <1>2 DEF Found
<1> QED BY <1>1, <1>3

\* A configuration makes a record of another one, or a new one.
LEMMA RecordsUpdated ==
  ASSUME NEW c \in Configs
  PROVE  /\ \A r \in Records : Updated(r, c) \in Records
         /\ Fresh(c) \in Records /\ NoEdit.record \in Records
<1>1. c.ids \subseteq Identifiers /\ c.credentials \in Credentials \cup {NoCredentials}
  BY StorageAssumption
<1>2. NoEdit.record \in Records
  BY DEF NoEdit, Records
<1>3. \A r \in Records : Updated(r, c) \in Records
  BY <1>1 DEF Updated, Records
<1> QED BY <1>2, <1>3 DEF Fresh

\* An empty record to begin with.
LEMMA NoEditTyped == NoEdit \in Edited /\ NoSave \in Saving
  BY DEF NoEdit, Edited, NoSave, Saving, Records

\* What the editors make of the list and of what they hold.
LEMMA EditsTyped ==
  ASSUME StorageTyped, NEW u \in Editors, Edits(u)
  PROVE  StorageTyped'
<1>1. settings \in Seq(Records) /\ edits \in [Editors -> Edited]
  BY DEF StorageTyped
<1>2. UNCHANGED <<saves, diskVars>>
  BY DEF Edits, Get, Pairs, Store, RemoveRecord, Forgets
<1>3. ASSUME settings' \in Seq(Records), edits' \in [Editors -> Edited] PROVE StorageTyped'
  BY <1>2, <1>3 DEF StorageTyped, diskVars
<1>4. ASSUME NEW at \in {"read", "store"}, NEW r \in Records, Edit(u, at, r)
      PROVE  edits' \in [Editors -> Edited]
  BY <1>1, <1>4 DEF Edit, Edited
<1>5. edits' = [edits EXCEPT ![u] = NoEdit] => edits' \in [Editors -> Edited]
  BY <1>1, NoEditTyped
<1>6. \A r \in Records : Append(settings, r) \in Seq(Records)
  BY <1>1
<1>7. ASSUME NEW c \in Configs, NEW then \in {"read", "store"}, Get(u, c, then) PROVE StorageTyped'
  <2>1. CASE Matches(c.ids) # {}
    <3> DEFINE r == IF then = "store" THEN Updated(settings[Found(c.ids)], c) ELSE settings[Found(c.ids)]
    <3>1. Edit(u, then, r) /\ settings' = settings
      BY <1>7, <2>1 DEF Get
    <3>2. r \in Records
      BY <1>1, <2>1, FoundIsThere, RecordsUpdated
    <3> HIDE DEF r
    <3> QED BY <1>1, <1>3, <1>4, <3>1, <3>2
  <2>2. CASE Matches(c.ids) = {}
    <3>1. Edit(u, then, Fresh(c)) /\ settings' = Append(settings, Fresh(c))
      BY <1>7, <2>2 DEF Get
    <3>2. Fresh(c) \in Records
      BY RecordsUpdated
    <3> QED BY <1>3, <1>4, <1>6, <3>1, <3>2
  <2> QED BY <2>1, <2>2
<1>8. ASSUME NEW id \in Paired, NEW given \in Credentials, Pairs(u, id, given) PROVE StorageTyped'
  <2> DEFINE ids == IF Matches({id}) = {} THEN {id} ELSE settings[Found({id})].ids
             r == [ids |-> ids, credentials |-> given]
  <2>1. Edit(u, "store", r) /\ settings' = settings
    BY <1>8 DEF Pairs
  <2>2. ids \subseteq Identifiers
    BY <1>1, StorageAssumption, FoundIsThere DEF Records
  <2> HIDE DEF ids
  <2>3. r \in Records
    BY <2>2 DEF Records
  <2> HIDE DEF r
  <2> QED BY <1>1, <1>3, <1>4, <2>1, <2>3
<1>9. ASSUME Store(u) PROVE StorageTyped'
  <2> DEFINE r == edits[u].record
  <2>1. r \in Records
    BY <1>1 DEF Edited
  <2>2. /\ edits' = [edits EXCEPT ![u] = NoEdit]
        /\ settings' = IF Matches(r.ids) = {} THEN Append(settings, r)
                       ELSE [settings EXCEPT ![Found(r.ids)] = r]
    BY <1>9 DEF Store, StoreRecord
  <2> HIDE DEF r
  <2>3. [settings EXCEPT ![Found(r.ids)] = r] \in Seq(Records)
    <3>1. settings \in [1..Len(settings) -> Records] /\ Len(settings) \in Nat
      BY <1>1
    <3>2. [settings EXCEPT ![Found(r.ids)] = r] \in [1..Len(settings) -> Records]
      BY <2>1, <3>1
    <3> QED BY <3>1, <3>2
  <2> QED BY <1>3, <1>5, <1>6, <2>1, <2>2, <2>3
<1>10. ASSUME RemoveRecord(u) PROVE StorageTyped'
  <2>1. settings' \in Seq(Records \ {edits[u].record}) /\ edits' = [edits EXCEPT ![u] = NoEdit]
    BY <1>1, <1>10, RetainList DEF RemoveRecord
  <2>2. settings' \in Seq(Records)
    BY <2>1
  <2> QED BY <1>3, <1>5, <2>1, <2>2
<1>11. ASSUME Forgets(u) PROVE StorageTyped'
  BY <1>1, <1>3, <1>5, <1>11 DEF Forgets
<1> QED BY <1>7, <1>8, <1>9, <1>10, <1>11 DEF Edits

\* What is written of a dump is a part of one, whoever else writes.
LEMMA WrittenTyped ==
  ASSUME NEW file \in Content, NEW dump \in Seq(Records), NEW piece \in 1..Complete
  PROVE  Written(file, dump, piece) \in Content
  BY DEF Content, Written, File, Torn, Complete

\* No step of a saver, of the disk or of a crash makes anything but files of dumps.
LEMMA TypedSteps == Named /\ StorageTyped /\ [StorageNext]_storageVars => StorageTyped'
<1> SUFFICES ASSUME Named, StorageTyped, [StorageNext]_storageVars PROVE StorageTyped'
  OBVIOUS
<1>1. ASSUME NEW u \in Editors, Edits(u) PROVE StorageTyped'
  BY <1>1, EditsTyped
<1> DEFINE Busy(f) == f \in [Savers -> Saving] /\ \A s \in Savers : f[s].at \notin {"none", "create"} => f[s].inode # 0
<1>2. ASSUME NEW s \in Savers, NEW at \in {"finish", "sync", "rename", "mark"}, At(s, at),
             saves[s].at \notin {"none", "create"}
      PROVE  Busy(saves')
  BY <1>2 DEF At, StorageTyped, Saving
<1>3. ASSUME NEW s \in Savers, Ends(s) PROVE Busy(saves')
  BY <1>3, NoEditTyped DEF Ends, StorageTyped, NoSave
<1>4. ASSUME NEW s \in Savers, Save(s) PROVE StorageTyped'
  <2>1. saves' = [saves EXCEPT ![s] = [at |-> "create", dump |-> settings, inode |-> 0]]
        /\ UNCHANGED <<coreVars, diskVars>>
    BY <1>4 DEF Save
  <2>2. [at |-> "create", dump |-> settings, inode |-> 0] \in Saving
    BY DEF StorageTyped, Saving
  <2>3. Busy(saves')
    BY <2>1, <2>2 DEF StorageTyped
  <2> QED BY <2>1, <2>3 DEF StorageTyped, coreVars, diskVars
<1>5. ASSUME NEW s \in Savers, CreateTmp(s) PROVE StorageTyped'
  <2>1. /\ files' = [files EXCEPT ![tmp'] = Empty] /\ synced' = synced \ {tmp'}
        /\ saves' = [saves EXCEPT ![s].at = "write", ![s].inode = tmp']
        /\ UNCHANGED <<coreVars, conf, committed>>
    BY <1>5 DEF CreateTmp
  <2>2. tmp' \in Inodes
    BY <1>5, InodeFree DEF CreateTmp, Named
  <2>3. 0 \notin Inodes
    BY DEF Inodes
  <2>4. Empty \in Content
    BY DEF Empty, File, Content, Complete
  <2>5. Busy(saves')
    BY ZenonT(60), <2>1, <2>2, <2>3 DEF StorageTyped, Saving
  <2> QED BY <2>1, <2>2, <2>4, <2>5 DEF StorageTyped, coreVars
<1>6. ASSUME NEW s \in Savers, Write(s) PROVE StorageTyped'
  <2>1. PICK to \in {"finish", "sync"}, piece \in 1..Complete :
           /\ saves[s].at \in {"write", "finish"}
           /\ files' = [files EXCEPT ![saves[s].inode] = Written(files[saves[s].inode], saves[s].dump, piece)]
           /\ synced' = synced \ {saves[s].inode}
           /\ At(s, to)
           /\ UNCHANGED <<coreVars, conf, committed, tmp>>
    BY <1>6 DEF Write, WritePiece, Complete
  <2>2. Busy(saves')
    BY <1>2, <2>1
  <2>3. saves[s].dump \in Seq(Records) /\ saves[s].inode \in Inodes
    BY <2>1 DEF StorageTyped, Saving
  <2>4. Written(files[saves[s].inode], saves[s].dump, piece) \in Content
    BY <2>1, <2>3, WrittenTyped DEF StorageTyped
  <2>5. files' \in [Inodes -> Content]
    BY <2>1, <2>4 DEF StorageTyped
  <2> QED BY <2>1, <2>2, <2>5 DEF StorageTyped, coreVars
<1>7. ASSUME NEW s \in Savers, Sync(s) PROVE StorageTyped'
  <2>1. saves[s].inode \in Inodes
    BY <1>7 DEF Sync, StorageTyped, Saving
  <2> QED BY <1>2, <1>7, <2>1 DEF Sync, StorageTyped, coreVars
<1>8. ASSUME NEW s \in Savers, WriteFails(s) PROVE StorageTyped'
  BY <1>3, <1>8 DEF WriteFails, StorageTyped, coreVars
<1>9. ASSUME NEW s \in Savers, Rename(s) PROVE StorageTyped'
  BY <1>2, <1>9 DEF Rename, StorageTyped, coreVars
<1>10. ASSUME NEW s \in Savers, MarkSaved(s) PROVE StorageTyped'
  BY <1>3, <1>10 DEF MarkSaved, StorageTyped, diskVars
<1>11. CASE Commit
  BY <1>11 DEF Commit, StorageTyped, coreVars
<1>12. CASE Crash
  <2>1. PICK onDisk \in [Inodes \ synced -> 0..Complete] :
           files' = [i \in Inodes |-> IF i \in synced THEN files[i] ELSE File(files[i].dump, onDisk[i])]
    BY <1>12 DEF Crash
  <2>2. \A i \in Inodes : (IF i \in synced THEN files[i] ELSE File(files[i].dump, onDisk[i])) \in Content
    BY DEF StorageTyped, Content, File
  <2>3. files' \in [Inodes -> Content]
    BY <2>1, <2>2
  <2>4. /\ synced' = Inodes /\ conf' \in {conf, committed} /\ committed' = conf'
        /\ tmp' \in {tmp, conf}
        /\ settings' = IF conf' = 0 THEN <<>> ELSE files'[conf'].dump
        /\ edits' = [u \in Editors |-> NoEdit] /\ saves' = [s \in Savers |-> NoSave]
    BY <1>12 DEF Crash
  <2>5. settings' \in Seq(Records)
    <3>1. conf' \in Inodes \cup {0}
      BY <2>4 DEF StorageTyped
    <3>2. \A i \in Inodes : files'[i].dump \in Seq(Records)
      BY <2>3 DEF Content
    <3> QED BY <2>4, <3>1, <3>2
  <2>6. edits' \in [Editors -> Edited] /\ Busy(saves')
    BY <2>4, NoEditTyped DEF NoSave
  <2> QED BY <2>3, <2>4, <2>5, <2>6 DEF StorageTyped
<1>13. CASE UNCHANGED storageVars
  BY <1>13 DEF storageVars, coreVars, diskVars, StorageTyped
<1> QED BY <1>1, <1>4, <1>5, <1>6, <1>7, <1>8, <1>9, <1>10, <1>11, <1>12, <1>13 DEF StorageNext, SaveStep

\* core.rs and file.rs: however many threads edit and save, and wherever a crash strikes, the list, what
\* is held of it and every file are of records, and names stand for files that are there.
THEOREM StorageTypes == StorageSpec => []StorageTypeOK
<1>1. StorageInit => StorageTyped
  <2> SUFFICES ASSUME StorageInit PROVE StorageTyped
    OBVIOUS
  <2>1. Empty \in Content
    BY DEF Empty, File, Content, Complete
  <2>2. /\ settings = <<>> /\ edits = [u \in Editors |-> NoEdit] /\ saves = [s \in Savers |-> NoSave]
        /\ conf = 0 /\ tmp = 0 /\ committed = 0 /\ files = [i \in Inodes |-> Empty] /\ synced = {}
    BY DEF StorageInit
  <2>3. \A s \in Savers : saves[s].at = "none"
    BY <2>2 DEF NoSave
  <2> QED BY <2>1, <2>2, <2>3, NoEditTyped DEF StorageTyped
<1>2. StorageTyped => StorageTypeOK
  BY DEF StorageTyped, StorageTypeOK, Edited, Saving, Content
<1> QED BY <1>1, <1>2, NamedStarts, NamedSteps, TypedSteps, PTL DEF StorageSpec

-----------------------------------------------------------------------------
(* Pairing                                                                  *)

\* What a user's side is like, when n runs have begun.
HandlerShape(h, n) ==
  /\ DOMAIN h = {"step", "run", "device", "procedure", "pin", "key", "creds", "has_paired"}
  /\ h.run \in 0..n /\ (h.run = 0 <=> h.step = "idle") /\ (h.run # 0 => h.device \in Devices)
  /\ h.procedure # Missing => /\ h.procedure.run \in 1..n /\ h.procedure.run # h.run
                              /\ h.procedure.device \in Devices

\* Run n is the one under way at a user's side, or the one it holds.
InRun(h, n) == h.run = n \/ (h.procedure # Missing /\ h.procedure.run = n)

\* The messages there are.
Sent(kind, state) == <<kind, state>> \in {<<"setup", 1>>, <<"setup", 3>>, <<"setup", 5>>, <<"verify", 1>>, <<"verify", 3>>}

\* What the user's side has sent in the step it is in, and what it knows of its key.
Asks(h, kind, state, data) ==
  /\ h.step = "verify M2" => kind = "verify" /\ state = 1
  /\ h.step = "verify M4" => kind = "verify" /\ state = 3 /\ data.sealed = h.key
  /\ h.step = "transient M4" => kind = "setup" /\ state = 3 /\ data.proof = h.key

Knows(h) ==
  /\ h.step = "verify M4" /\ h.creds # Missing => h.key = Secret(h.run, h.creds.ltpk)
  /\ h.step = "transient M4" => h.key[2] = TransientPin

\* What an answer to it means.
Means(h, answer, keys) ==
  /\ h.step = "verify M2" => answer.data.signature[1] = answer.data.public_key
  /\ h.step = "verify M4" => keys = h.key
  /\ h.step = "transient M4" /\ answer.data # TlvError => keys = h.key

\* A session of a device is transient if its PIN is the one that everyone knows.
AccessoryShape(a) ==
  /\ a = [setup |-> a.setup, pairings |-> a.pairings, secret |-> a.secret, ephemeral |-> a.ephemeral]
  /\ a.setup # Missing =>
       /\ a.setup = [salt |-> a.setup.salt, key |-> a.setup.key, transient |-> a.setup.transient, pin |-> a.setup.pin]
       /\ a.setup.pin = TransientPin => a.setup.transient = TRUE

HandlersInv ==
  /\ lastRun \in 0..MaxRuns /\ DOMAIN handlers = Controllers
  /\ \A u \in Controllers : HandlerShape(handlers[u], lastRun) /\ Knows(handlers[u])
  /\ \A u, v \in Controllers, n \in Runs : InRun(handlers[u], n) /\ InRun(handlers[v], n) => u = v

WireInv ==
  /\ DOMAIN wire = Runs /\ DOMAIN answers = Runs /\ DOMAIN transport = Runs
  /\ \A n \in Runs : wire[n] # Missing =>
        /\ wire[n].run = n /\ n <= lastRun /\ wire[n].device \in Devices /\ Sent(wire[n].kind, wire[n].state)
        /\ answers[n] = Missing

StepsInv ==
  \A u \in Controllers : handlers[u].step # "idle" =>
      /\ wire[handlers[u].run] # Missing =>
            Asks(handlers[u], wire[handlers[u].run].kind, wire[handlers[u].run].state, wire[handlers[u].run].data)
      /\ answers[handlers[u].run] # Missing =>
            Means(handlers[u], answers[handlers[u].run], transport[handlers[u].run])

VerifiedInv ==
  \A n \in DOMAIN verified :
      /\ n \in 1..lastRun /\ wire[n] = Missing /\ \A u \in Controllers : ~InRun(handlers[u], n)

DevicesInv == DOMAIN accessories = Devices /\ \A d \in Devices : AccessoryShape(accessories[d])

PairingInv ==
  HandlersInv /\ WireInv /\ StepsInv /\ VerifiedInv /\ DevicesInv /\ DOMAIN credentials = Controllers /\ StoredAreProven

\* At first nothing has begun.
LEMMA PairingStarts == PairingInit => PairingInv
<1> SUFFICES ASSUME PairingInit PROVE PairingInv
  OBVIOUS
<1> USE PairingAssumption DEF PairingInit
<1>1. HandlersInv
  <2>1. \A u \in Controllers : handlers[u] =
          [step |-> "idle", run |-> 0, device |-> Missing, procedure |-> Missing, pin |-> Missing,
           key |-> Missing, creds |-> Missing, has_paired |-> FALSE]
    OBVIOUS
  <2>2. \A u \in Controllers : HandlerShape(handlers[u], lastRun) /\ Knows(handlers[u])
    <3> SUFFICES ASSUME NEW u \in Controllers PROVE HandlerShape(handlers[u], lastRun) /\ Knows(handlers[u])
      OBVIOUS
    <3> DEFINE h == handlers[u]
    <3>1. /\ h.step = "idle" /\ h.run = 0 /\ h.procedure = Missing
          /\ DOMAIN h = {"step", "run", "device", "procedure", "pin", "key", "creds", "has_paired"}
      BY <2>1
    <3>2. lastRun = 0
      OBVIOUS
    <3> HIDE DEF h
    <3>3. HandlerShape(h, lastRun) /\ Knows(h)
      BY ONLY <3>1, <3>2 DEF HandlerShape, Knows
    <3> QED BY <3>3 DEF h
  <2>3. \A u \in Controllers, n \in Runs : ~InRun(handlers[u], n)
    BY <2>1 DEF InRun, Runs
  <2>4. lastRun \in 0..MaxRuns /\ DOMAIN handlers = Controllers
    OBVIOUS
  <2> QED BY <2>2, <2>3, <2>4 DEF HandlersInv
<1>2. WireInv
  BY DEF WireInv
<1>3. StepsInv
  BY DEF StepsInv
<1>4. VerifiedInv
  BY DEF VerifiedInv
<1>5. DevicesInv
  BY DEF DevicesInv, AccessoryShape
<1>6. DOMAIN credentials = Controllers /\ StoredAreProven
  BY DEF StoredAreProven
<1> QED BY <1>1, <1>2, <1>3, <1>4, <1>5, <1>6 DEF PairingInv

\* A user's side comes to rest, with the run it had as its procedure or without.
LEMMA RestKeeps ==
  ASSUME PairingInv, NEW u \in Controllers, NEW h, HandlerShape(h, lastRun), h.step = "idle",
         \A n \in Runs : InRun(h, n) => InRun(handlers[u], n),
         handlers' = [handlers EXCEPT ![u] = h],
         UNCHANGED <<lastRun, wire, answers, accessories, transport, verified, credentials>>
  PROVE  PairingInv'
<1>1. HandlersInv /\ WireInv /\ StepsInv /\ VerifiedInv /\ DevicesInv /\ DOMAIN credentials = Controllers /\ StoredAreProven
  BY DEF PairingInv
<1>2. DOMAIN handlers' = Controllers /\ handlers'[u] = h /\ \A v \in Controllers : v # u => handlers'[v] = handlers[v]
  BY <1>1 DEF HandlersInv
<1>3. Knows(h)
  BY DEF Knows
<1>4. \A v \in Controllers, n \in Runs : InRun(handlers'[v], n) => InRun(handlers[v], n)
  BY <1>2
<1>5. HandlersInv'
  <2>1. \A v \in Controllers : HandlerShape(handlers'[v], lastRun') /\ Knows(handlers'[v])
    BY <1>1, <1>2, <1>3 DEF HandlersInv
  <2>2. \A v, w \in Controllers, n \in Runs : InRun(handlers'[v], n) /\ InRun(handlers'[w], n) => v = w
    BY <1>1, <1>4 DEF HandlersInv
  <2>3. lastRun' \in 0..MaxRuns
    BY <1>1 DEF HandlersInv
  <2> QED BY <1>2, <2>1, <2>2, <2>3 DEF HandlersInv, Runs
<1>6. WireInv'
  BY <1>1 DEF WireInv, Runs
<1>7. StepsInv'
  <2> SUFFICES ASSUME NEW v \in Controllers, handlers'[v].step # "idle"
               PROVE  /\ wire[handlers'[v].run] # Missing =>
                            Asks(handlers'[v], wire[handlers'[v].run].kind, wire[handlers'[v].run].state, wire[handlers'[v].run].data)
                      /\ answers[handlers'[v].run] # Missing =>
                            Means(handlers'[v], answers[handlers'[v].run], transport[handlers'[v].run])
    BY DEF StepsInv
  <2>1. handlers'[v] = handlers[v]
    BY <1>2
  <2> QED BY <1>1, <2>1 DEF StepsInv
<1>8. VerifiedInv'
  <2>1. \A n \in 1..lastRun : n \in Runs
    BY <1>1, PairingAssumption DEF HandlersInv, Runs
  <2> QED BY <1>1, <1>4, <2>1 DEF VerifiedInv
<1>9. DevicesInv' /\ StoredAreProven'
  BY <1>1 DEF DevicesInv, StoredAreProven
<1> QED BY <1>1, <1>5, <1>6, <1>7, <1>8, <1>9 DEF PairingInv

\* A user's side sends the next message of its run, of the one it held, or of a new one.
LEMMA SendKeeps ==
  ASSUME PairingInv, NEW u \in Controllers, NEW h, NEW kind, NEW state, NEW data, NEW n,
         SendStep(u, h, kind, state, data), h.run = n, n # 0,
         UNCHANGED <<accessories, transport, verified, credentials>>,
         \/ lastRun' = lastRun /\ InRun(handlers[u], n)
         \/ lastRun < MaxRuns /\ lastRun' = lastRun + 1 /\ n = lastRun + 1,
         HandlerShape(h, lastRun'), Knows(h), h.procedure # Missing => h.procedure = handlers[u].procedure,
         Sent(kind, state), Asks(h, kind, state, data)
  PROVE  PairingInv'
<1>1. HandlersInv /\ WireInv /\ StepsInv /\ VerifiedInv /\ DevicesInv /\ DOMAIN credentials = Controllers /\ StoredAreProven
  BY DEF PairingInv
<1>2. /\ handlers' = [handlers EXCEPT ![u] = h]
      /\ wire' = [wire EXCEPT ![h.run] = [run |-> h.run, device |-> h.device, kind |-> kind, state |-> state, data |-> data]]
      /\ answers' = [answers EXCEPT ![h.run] = Missing]
  BY DEF SendStep
<1>3. /\ DOMAIN handlers' = Controllers /\ handlers'[u] = h
      /\ \A v \in Controllers : v # u => handlers'[v] = handlers[v]
  BY <1>1, <1>2 DEF HandlersInv
<1>4. /\ lastRun \in Nat /\ MaxRuns \in Nat /\ lastRun <= lastRun' /\ lastRun' \in 0..MaxRuns /\ lastRun \in 0..MaxRuns
      /\ \A v \in Controllers : HandlerShape(handlers[v], lastRun) /\ Knows(handlers[v])
      /\ \A v, w \in Controllers, k \in Runs : InRun(handlers[v], k) /\ InRun(handlers[w], k) => v = w
  BY <1>1, PairingAssumption DEF HandlersInv
<1>5. n \in Runs /\ n \in 1..lastRun'
  <2>1. n \in 0..lastRun'
    BY DEF HandlerShape
  <2> QED BY <1>4, <2>1 DEF Runs
<1>6. \A v \in Controllers, k \in Runs : InRun(handlers[v], k) => k <= lastRun
  <2> SUFFICES ASSUME NEW v \in Controllers, NEW k \in Runs, InRun(handlers[v], k) PROVE k <= lastRun
    OBVIOUS
  <2>1. HandlerShape(handlers[v], lastRun)
    BY <1>4
  <2>2. handlers[v].run \in 0..lastRun
    BY <2>1 DEF HandlerShape
  <2>3. handlers[v].procedure # Missing => handlers[v].procedure.run \in 1..lastRun
    BY <2>1 DEF HandlerShape
  <2> QED BY <1>4, <2>2, <2>3 DEF InRun
<1>7. \A v \in Controllers : v # u => ~InRun(handlers[v], n)
  BY <1>4, <1>5, <1>6
<1>8. \A k \in Runs : InRun(h, k) => k = n \/ InRun(handlers[u], k)
  BY DEF InRun
<1>9. HandlersInv'
  <2>1. ASSUME NEW v \in Controllers PROVE HandlerShape(handlers'[v], lastRun') /\ Knows(handlers'[v])
    <3>1. CASE v = u
      BY <1>3, <3>1
    <3>2. CASE v # u
      <4>1. handlers'[v] = handlers[v] /\ HandlerShape(handlers[v], lastRun) /\ Knows(handlers[v])
        BY <1>3, <1>4, <3>2
      <4>2. \A k : (k \in 0..lastRun => k \in 0..lastRun') /\ (k \in 1..lastRun => k \in 1..lastRun')
        BY <1>4
      <4>3. HandlerShape(handlers[v], lastRun')
        BY <4>1, <4>2 DEF HandlerShape
      <4> QED BY <4>1, <4>3
    <3> QED BY <3>1, <3>2
  <2>2. ASSUME NEW v \in Controllers, NEW w \in Controllers, NEW k \in Runs, InRun(handlers'[v], k), InRun(handlers'[w], k)
        PROVE  v = w
    <3>1. \A x \in Controllers : InRun(handlers'[x], k) => InRun(handlers[x], k) \/ (x = u /\ k = n)
      BY <1>3, <1>8
    <3> QED BY <1>4, <1>7, <2>2, <3>1
  <2> QED BY <1>3, <1>4, <2>1, <2>2 DEF HandlersInv, Runs
<1>10. /\ DOMAIN wire' = Runs /\ DOMAIN answers' = Runs /\ DOMAIN transport' = Runs
       /\ wire'[n] = [run |-> n, device |-> h.device, kind |-> kind, state |-> state, data |-> data]
       /\ answers'[n] = Missing
       /\ \A k \in Runs : k # n => wire'[k] = wire[k] /\ answers'[k] = answers[k]
  BY <1>1, <1>2, <1>5 DEF WireInv
<1>11. WireInv'
  <2>1. ASSUME NEW k \in Runs, wire'[k] # Missing
        PROVE  /\ wire'[k].run = k /\ k <= lastRun' /\ wire'[k].device \in Devices /\ Sent(wire'[k].kind, wire'[k].state)
               /\ answers'[k] = Missing
    <3>1. CASE k = n
      <4>1. h.device \in Devices
        BY DEF HandlerShape
      <4> QED BY <1>5, <1>10, <3>1, <4>1
    <3>2. CASE k # n
      <4>1. wire'[k] = wire[k] /\ answers'[k] = answers[k]
        BY <1>10, <3>2
      <4>2. wire[k].run = k /\ k <= lastRun /\ wire[k].device \in Devices /\ Sent(wire[k].kind, wire[k].state) /\ answers[k] = Missing
        BY <1>1, <2>1, <4>1 DEF WireInv
      <4> QED BY <1>4, <4>1, <4>2 DEF Runs
    <3> QED BY <3>1, <3>2
  <2> QED BY <1>10, <2>1 DEF WireInv, Runs
<1>12. StepsInv'
  <2> SUFFICES ASSUME NEW v \in Controllers, handlers'[v].step # "idle"
               PROVE  /\ wire'[handlers'[v].run] # Missing =>
                            Asks(handlers'[v], wire'[handlers'[v].run].kind, wire'[handlers'[v].run].state, wire'[handlers'[v].run].data)
                      /\ answers'[handlers'[v].run] # Missing =>
                            Means(handlers'[v], answers'[handlers'[v].run], transport[handlers'[v].run])
    BY DEF StepsInv
  <2>1. CASE v = u
    BY <1>3, <1>10, <2>1
  <2>2. CASE v # u
    <3> DEFINE k == handlers[v].run
    <3>1. handlers'[v] = handlers[v]
      BY <1>3, <2>2
    <3>2. k \in Runs /\ k # n
      <4>1. k \in 0..lastRun /\ k # 0
        BY <1>4, <3>1 DEF HandlerShape
      <4>2. k \in Runs
        BY <1>4, <4>1 DEF Runs
      <4> QED BY <1>7, <2>2, <4>2 DEF InRun
    <3>3. wire'[k] = wire[k] /\ answers'[k] = answers[k]
      BY <1>10, <3>2
    <3> QED BY <1>1, <3>1, <3>3 DEF StepsInv
  <2> QED BY <2>1, <2>2
<1>13. \A k \in DOMAIN verified : k # n /\ k \in Runs
  <2>1. \A k \in DOMAIN verified : k \in 1..lastRun /\ ~InRun(handlers[u], k)
    BY <1>1 DEF VerifiedInv
  <2> QED BY <1>4, <2>1 DEF Runs
<1>14. VerifiedInv'
  <2> SUFFICES ASSUME NEW k \in DOMAIN verified
               PROVE  k \in 1..lastRun' /\ wire'[k] = Missing /\ \A v \in Controllers : ~InRun(handlers'[v], k)
    BY DEF VerifiedInv
  <2>1. k \in 1..lastRun /\ wire[k] = Missing /\ \A v \in Controllers : ~InRun(handlers[v], k)
    BY <1>1 DEF VerifiedInv
  <2> QED BY <1>3, <1>4, <1>8, <1>10, <1>13, <2>1
<1>15. StoredAreProven'
  <2>1. \A k \in DOMAIN verified : answers'[k] = answers[k]
    BY <1>10, <1>13
  <2> QED BY <1>1, <2>1 DEF StoredAreProven
<1>16. DevicesInv'
  BY <1>1 DEF DevicesInv
<1> QED BY <1>1, <1>9, <1>11, <1>12, <1>14, <1>15, <1>16 DEF PairingInv

\* What a device makes of a message: it keeps its shape; what it answers to the messages of
\* verification; and a proof of the PIN everyone knows makes its key the one of the connection.
Serves(r, reply) ==
  /\ AccessoryShape(reply.state)
  /\ r.kind = "verify" /\ r.state = 1 => reply.data.signature[1] = reply.data.public_key
  /\ r.kind = "verify" /\ r.state = 3 /\ reply.data # Missing => reply.state.secret = r.data.sealed
  /\ r.kind = "setup" /\ r.state = 3 /\ r.data.proof[2] = TransientPin /\ reply.data # Missing /\ reply.data # TlvError =>
        reply.state.setup.transient = TRUE /\ reply.state.secret = r.data.proof

\* An accessory of the same shape, with other parts.
LEMMA AccessoryOf ==
  ASSUME NEW setup, NEW pairings, NEW secret, NEW ephemeral,
         setup # Missing =>
            /\ setup = [salt |-> setup.salt, key |-> setup.key, transient |-> setup.transient, pin |-> setup.pin]
            /\ setup.pin = TransientPin => setup.transient = TRUE
  PROVE  AccessoryShape([setup |-> setup, pairings |-> pairings, secret |-> secret, ephemeral |-> ephemeral])
  BY DEF AccessoryShape

\* Handled: what each message of the two procedures leaves of the accessory, and its answer.
LEMMA HandledFacts ==
  ASSUME DevicesInv, NEW d \in Devices, NEW r, Sent(r.kind, r.state)
  PROVE  Serves(r, Handled(d, r))
<1> DEFINE a == accessories[d]
           reply == Handled(d, r)
<1>1. /\ AccessoryShape(a)
      /\ a = [setup |-> a.setup, pairings |-> a.pairings, secret |-> a.secret, ephemeral |-> a.ephemeral]
      /\ a.setup # Missing =>
            /\ a.setup = [salt |-> a.setup.salt, key |-> a.setup.key, transient |-> a.setup.transient, pin |-> a.setup.pin]
            /\ a.setup.pin = TransientPin => a.setup.transient = TRUE
  BY DEF DevicesInv, AccessoryShape
<1>2. CASE r.kind = "setup" /\ r.state = 1
  <2> DEFINE session == [salt |-> r.run, key |-> Missing, transient |-> r.data = "transient",
                         pin |-> IF r.data = "transient" THEN TransientPin ELSE PinOf[d]]
  <2>1. reply.state = [a EXCEPT !.setup = session]
    BY <1>2 DEF Handled, setup_m1, Reply
  <2>2. session = [salt |-> session.salt, key |-> session.key, transient |-> session.transient, pin |-> session.pin]
    OBVIOUS
  <2>3. session.pin = TransientPin => session.transient = TRUE
    <3>1. PinOf[d] # TransientPin
      BY PairingAssumption
    <3> QED BY <3>1
  <2> HIDE DEF session, a, reply
  <2>4. [a EXCEPT !.setup = session] =
          [setup |-> session, pairings |-> a.pairings, secret |-> a.secret, ephemeral |-> a.ephemeral]
    BY <1>1
  <2>5. AccessoryShape([setup |-> session, pairings |-> a.pairings, secret |-> a.secret, ephemeral |-> a.ephemeral])
    BY ONLY <2>2, <2>3, AccessoryOf
  <2>6. AccessoryShape(reply.state)
    BY ONLY <2>1, <2>4, <2>5
  <2> QED BY <1>2, <2>6 DEF Serves, reply
<1>3. CASE r.kind = "setup" /\ r.state = 3
  <2> DEFINE key == SrpKey(a.setup.pin, r.data.public_key, a.setup.salt)
  <2>1. reply = IF a.setup = Missing THEN [state |-> a, data |-> Missing]
                ELSE IF r.data.proof # key THEN [state |-> [a EXCEPT !.setup = Missing], data |-> TlvError]
                ELSE [state |-> [a EXCEPT !.setup.key = key, !.secret = IF a.setup.transient THEN key ELSE @],
                      data |-> key]
    BY <1>3 DEF Handled, setup_m3, Reply, Refusal
  <2>2. key[2] = a.setup.pin
    BY DEF SrpKey
  <2> HIDE DEF a, reply, key
  <2>3. CASE a.setup = Missing
    <3>1. reply.state = a /\ reply.data = Missing
      BY <2>1, <2>3
    <3> QED BY <1>1, <1>3, <3>1 DEF Serves, reply
  <2>4. CASE a.setup # Missing /\ r.data.proof # key
    <3>1. reply.state = [a EXCEPT !.setup = Missing] /\ reply.data = TlvError
      BY <2>1, <2>4
    <3>2. [a EXCEPT !.setup = Missing] =
            [setup |-> Missing, pairings |-> a.pairings, secret |-> a.secret, ephemeral |-> a.ephemeral]
      BY <1>1
    <3>3. AccessoryShape([setup |-> Missing, pairings |-> a.pairings, secret |-> a.secret, ephemeral |-> a.ephemeral])
      BY ONLY AccessoryOf
    <3>4. AccessoryShape(reply.state)
      BY ONLY <3>1, <3>2, <3>3
    <3> QED BY <1>3, <3>1, <3>4 DEF Serves, reply
  <2>5. CASE a.setup # Missing /\ r.data.proof = key
    <3> DEFINE session == [a.setup EXCEPT !.key = key]
               secret == IF a.setup.transient THEN key ELSE a.secret
    <3>1. reply.state = [a EXCEPT !.setup.key = key, !.secret = secret] /\ reply.data = key
      BY <2>1, <2>5
    <3>2. session = [salt |-> a.setup.salt, key |-> key, transient |-> a.setup.transient, pin |-> a.setup.pin]
      BY <1>1, <2>5
    <3>3. a.setup.pin = TransientPin => a.setup.transient = TRUE /\ secret = key
      BY <1>1, <2>5
    <3> HIDE DEF secret
    <3>4. [a EXCEPT !.setup.key = key, !.secret = secret] =
            [setup |-> session, pairings |-> a.pairings, secret |-> secret, ephemeral |-> a.ephemeral]
      <4>1. DOMAIN a = {"setup", "pairings", "secret", "ephemeral"}
        BY <1>1
      <4>2. [a EXCEPT !.setup.key = key, !.secret = secret] = [[a EXCEPT !.setup = session] EXCEPT !.secret = secret]
        BY <4>1
      <4> HIDE DEF session
      <4> DEFINE b == [setup |-> session, pairings |-> a.pairings, secret |-> a.secret, ephemeral |-> a.ephemeral]
      <4>3. [a EXCEPT !.setup = session] = b
        BY <1>1
      <4>4. [b EXCEPT !.secret = secret] =
              [setup |-> session, pairings |-> a.pairings, secret |-> secret, ephemeral |-> a.ephemeral]
        OBVIOUS
      <4> HIDE DEF b
      <4> QED BY <4>2, <4>3, <4>4
    <3> HIDE DEF session
    <3>5. AccessoryShape([setup |-> session, pairings |-> a.pairings, secret |-> secret, ephemeral |-> a.ephemeral])
      <4>1. session.transient = a.setup.transient /\ session.pin = a.setup.pin
        BY <3>2
      <4>2. session = [salt |-> session.salt, key |-> session.key, transient |-> session.transient, pin |-> session.pin]
        BY ONLY <3>2
      <4>3. session.pin = TransientPin => session.transient = TRUE
        BY <3>3, <4>1
      <4> QED BY ONLY <4>2, <4>3, AccessoryOf
    <3>9. AccessoryShape(reply.state)
      BY ONLY <3>1, <3>4, <3>5
    <3>6. reply.state.setup = session /\ reply.state.secret = secret
      BY <3>1, <3>4
    <3>7. r.data.proof[2] = TransientPin => reply.state.setup.transient = TRUE /\ reply.state.secret = r.data.proof
      BY <2>2, <2>5, <3>2, <3>3, <3>6
    <3> QED BY <1>3, <3>9, <3>7 DEF Serves, reply
  <2> QED BY <2>3, <2>4, <2>5
<1>4. CASE r.kind = "setup" /\ r.state = 5
  <2> DEFINE pairings == Append(a.pairings, [client_id |-> r.data.identifier, ltpk |-> r.data.public_key])
  <2>1. reply.state = a \/ reply.state = [a EXCEPT !.pairings = pairings]
    BY <1>4 DEF Handled, setup_m5, Reply, Refusal
  <2> HIDE DEF a, reply, pairings
  <2>2. [a EXCEPT !.pairings = pairings] =
          [setup |-> a.setup, pairings |-> pairings, secret |-> a.secret, ephemeral |-> a.ephemeral]
    BY <1>1
  <2>3. AccessoryShape([setup |-> a.setup, pairings |-> pairings, secret |-> a.secret, ephemeral |-> a.ephemeral])
    BY ONLY <1>1, AccessoryOf
  <2>4. AccessoryShape(reply.state)
    BY ONLY <1>1, <2>1, <2>2, <2>3
  <2> QED BY <1>4, <2>4 DEF Serves, reply
<1>5. CASE r.kind = "verify" /\ r.state = 1
  <2> DEFINE secret == Secret(r.data, d)
             data == [public_key |-> d, sealed |-> secret, identifier |-> d, signature |-> <<d, d, d, r.data>>]
  <2>1. reply.state = [a EXCEPT !.secret = secret, !.ephemeral = r.data] /\ reply.data = data
    BY <1>5 DEF Handled, verify_m1, Reply
  <2>2. data.signature[1] = data.public_key
    OBVIOUS
  <2> HIDE DEF secret, data, a, reply
  <2>3. [a EXCEPT !.secret = secret, !.ephemeral = r.data] =
          [setup |-> a.setup, pairings |-> a.pairings, secret |-> secret, ephemeral |-> r.data]
    <3>1. DOMAIN a = {"setup", "pairings", "secret", "ephemeral"}
      BY <1>1
    <3>2. [a EXCEPT !.secret = secret, !.ephemeral = r.data] = [[a EXCEPT !.secret = secret] EXCEPT !.ephemeral = r.data]
      BY <3>1
    <3> DEFINE b == [setup |-> a.setup, pairings |-> a.pairings, secret |-> secret, ephemeral |-> a.ephemeral]
    <3>3. [a EXCEPT !.secret = secret] = b
      BY <1>1
    <3>4. [b EXCEPT !.ephemeral = r.data] =
            [setup |-> a.setup, pairings |-> a.pairings, secret |-> secret, ephemeral |-> r.data]
      OBVIOUS
    <3> HIDE DEF b
    <3> QED BY <3>2, <3>3, <3>4
  <2>5. AccessoryShape([setup |-> a.setup, pairings |-> a.pairings, secret |-> secret, ephemeral |-> r.data])
    BY ONLY <1>1, AccessoryOf
  <2>4. AccessoryShape(reply.state)
    BY ONLY <2>1, <2>3, <2>5
  <2> QED BY <1>5, <2>1, <2>2, <2>4 DEF Serves, reply
<1>6. CASE r.kind = "verify" /\ r.state = 3
  <2>1. reply.state = a /\ (a.secret # r.data.sealed => reply.data = Missing)
    BY <1>6 DEF Handled, verify_m3, Reply, Refusal
  <2> HIDE DEF a, reply
  <2> QED BY <1>1, <1>6, <2>1 DEF Serves, reply
<1> QED BY <1>2, <1>3, <1>4, <1>5, <1>6 DEF Sent

\* handle_crypto_pairing: a message handled late disturbs no other run, and its own run only if
\* somebody still waits for the answer.
LEMMA DeviceKeeps ==
  ASSUME PairingInv, NEW n \in Runs, wire[n] # Missing, DeviceHandles(wire[n])
  PROVE  PairingInv'
<1> DEFINE r == wire[n]
           reply == Handled(r.device, r)
           a == reply.state
           keyed == reply.data # Missing /\ r.state = 3 /\
                       (r.kind = "verify" \/ (reply.data # TlvError /\ a.setup.transient))
<1>1. HandlersInv /\ WireInv /\ StepsInv /\ VerifiedInv /\ DevicesInv /\ DOMAIN credentials = Controllers /\ StoredAreProven
  BY DEF PairingInv
<1>2. /\ wire' = [wire EXCEPT ![r.run] = Missing]
      /\ accessories' = [accessories EXCEPT ![r.device] = a]
      /\ answers' = IF reply.data = Missing THEN answers
                    ELSE [answers EXCEPT ![r.run] = [state |-> r.state + 1, data |-> reply.data]]
      /\ transport' = IF keyed THEN [transport EXCEPT ![r.run] = a.secret] ELSE transport
      /\ UNCHANGED <<handlers, lastRun, verified, credentials>>
  BY DEF DeviceHandles
<1>3. r.run = n /\ r.device \in Devices /\ Sent(r.kind, r.state) /\ answers[n] = Missing
  BY <1>1 DEF WireInv
<1>4. Serves(r, reply)
  BY <1>1, <1>3, HandledFacts
<1> HIDE DEF reply
<1>5. /\ DOMAIN wire' = Runs /\ DOMAIN answers' = Runs /\ DOMAIN transport' = Runs /\ wire'[n] = Missing
      /\ \A k \in Runs : k # n => wire'[k] = wire[k] /\ answers'[k] = answers[k] /\ transport'[k] = transport[k]
  BY <1>1, <1>2, <1>3 DEF WireInv
<1>6. answers'[n] # Missing => reply.data # Missing /\ answers'[n].data = reply.data
  <2>1. CASE reply.data = Missing
    BY <1>2, <1>3, <2>1
  <2>2. CASE reply.data # Missing
    <3>1. answers'[n] = [state |-> r.state + 1, data |-> reply.data]
      BY <1>1, <1>2, <1>3, <2>2 DEF WireInv
    <3> QED BY <2>2, <3>1
  <2> QED BY <2>1, <2>2
<1>7. keyed => transport'[n] = a.secret
  BY <1>1, <1>2, <1>3 DEF WireInv
<1>8. HandlersInv'
  BY <1>1, <1>2 DEF HandlersInv, Runs
<1>9. WireInv'
  <2> SUFFICES ASSUME NEW k \in Runs, wire'[k] # Missing
               PROVE  /\ wire'[k].run = k /\ k <= lastRun' /\ wire'[k].device \in Devices /\ Sent(wire'[k].kind, wire'[k].state)
                      /\ answers'[k] = Missing
    BY <1>5 DEF WireInv, Runs
  <2>1. wire'[k] = wire[k] /\ answers'[k] = answers[k] /\ lastRun' = lastRun
    BY <1>2, <1>5
  <2> QED BY <1>1, <2>1 DEF WireInv
<1>10. StepsInv'
  <2> SUFFICES ASSUME NEW v \in Controllers, handlers[v].step # "idle"
               PROVE  /\ wire'[handlers[v].run] # Missing =>
                            Asks(handlers[v], wire'[handlers[v].run].kind, wire'[handlers[v].run].state, wire'[handlers[v].run].data)
                      /\ answers'[handlers[v].run] # Missing =>
                            Means(handlers[v], answers'[handlers[v].run], transport'[handlers[v].run])
    BY <1>2 DEF StepsInv
  <2> DEFINE h == handlers[v]
  <2>1. HandlerShape(h, lastRun) /\ Knows(h) /\ h.run \in Runs
    <3>1. HandlerShape(h, lastRun) /\ Knows(h)
      BY <1>1 DEF HandlersInv
    <3>2. h.run \in 0..lastRun /\ h.run # 0 /\ lastRun \in 0..MaxRuns /\ MaxRuns \in Nat
      BY <1>1, <3>1, PairingAssumption DEF HandlerShape, HandlersInv
    <3> HIDE DEF h
    <3> QED BY <3>1, <3>2 DEF Runs
  <2>2. /\ wire[h.run] # Missing => Asks(h, wire[h.run].kind, wire[h.run].state, wire[h.run].data)
        /\ answers[h.run] # Missing => Means(h, answers[h.run], transport[h.run])
    BY <1>1 DEF StepsInv
  <2> HIDE DEF h
  <2>3. CASE h.run # n
    <3>1. wire'[h.run] = wire[h.run] /\ answers'[h.run] = answers[h.run] /\ transport'[h.run] = transport[h.run]
      BY <1>5, <2>1, <2>3
    <3> QED BY <2>2, <3>1 DEF h
  <2>4. CASE h.run = n
    <3>1. Asks(h, r.kind, r.state, r.data)
      BY <2>2, <2>4
    <3>2. ASSUME answers'[n] # Missing PROVE Means(h, answers'[n], transport'[n])
      <4> HIDE DEF r
      <4>1. CASE h.step = "verify M2"
        BY <1>4, <1>6, <3>1, <3>2, <4>1 DEF Means, Asks, Serves
      <4>2. CASE h.step = "verify M4"
        <5>1. r.kind = "verify" /\ r.state = 3 /\ r.data.sealed = h.key /\ reply.data # Missing
          BY <1>6, <3>1, <3>2, <4>2 DEF Asks
        <5>2. keyed /\ a.secret = h.key
          BY <1>4, <5>1 DEF Serves
        <5> QED BY <1>7, <4>2, <5>2 DEF Means
      <4>3. CASE h.step = "transient M4"
        <5>1. r.kind = "setup" /\ r.state = 3 /\ r.data.proof = h.key /\ h.key[2] = TransientPin /\ reply.data # Missing
          BY <1>6, <2>1, <3>1, <3>2, <4>3 DEF Asks, Knows
        <5>2. ASSUME reply.data # TlvError PROVE keyed /\ a.secret = h.key
          BY <1>4, <5>1, <5>2 DEF Serves
        <5> QED BY <1>6, <1>7, <3>2, <4>3, <5>2 DEF Means
      <4> QED BY <4>1, <4>2, <4>3 DEF Means
    <3> QED BY <1>5, <2>4, <3>2 DEF h
  <2> QED BY <2>3, <2>4
<1>11. \A k \in DOMAIN verified : k \in Runs /\ k # n
  <2>1. \A k \in DOMAIN verified : k \in 1..lastRun /\ wire[k] = Missing
    BY <1>1 DEF VerifiedInv
  <2>2. lastRun \in 0..MaxRuns /\ MaxRuns \in Nat
    BY <1>1, PairingAssumption DEF HandlersInv
  <2> QED BY <2>1, <2>2 DEF Runs
<1>12. VerifiedInv'
  <2>1. \A k \in DOMAIN verified : wire'[k] = wire[k]
    BY <1>5, <1>11
  <2> QED BY <1>1, <1>2, <2>1 DEF VerifiedInv
<1>13. StoredAreProven'
  <2>1. \A k \in DOMAIN verified : answers'[k] = answers[k] /\ transport'[k] = transport[k]
    BY <1>5, <1>11
  <2> QED BY <1>1, <1>2, <2>1 DEF StoredAreProven
<1>14. DevicesInv'
  <2>1. AccessoryShape(a)
    BY <1>4 DEF Serves
  <2> HIDE DEF a, r
  <2> QED BY <1>1, <1>2, <2>1 DEF DevicesInv
<1> QED BY <1>1, <1>2, <1>8, <1>9, <1>10, <1>12, <1>13, <1>14 DEF PairingInv

\* A run passes: nobody uses it any more, and its device has handled all of it.
LEMMA PassKeeps ==
  ASSUME PairingInv, NEW u \in Controllers, NEW n, n = handlers[u].run, handlers[u].step # "idle",
         NEW h, HandlerShape(h, lastRun), h.step = "idle", h.procedure = handlers[u].procedure,
         handlers' = [handlers EXCEPT ![u] = h],
         NEW creds, NEW secret, Passes(n, creds, secret),
         answers[n] # Missing, answers[n].data # TlvError, transport[n] = secret,
         creds # Missing => secret = Secret(n, creds.ltpk),
         credentials' = credentials \/ credentials' = [credentials EXCEPT ![u] = creds],
         UNCHANGED <<lastRun, wire, answers, accessories, transport>>
  PROVE  PairingInv'
<1>1. HandlersInv /\ WireInv /\ StepsInv /\ VerifiedInv /\ DevicesInv /\ DOMAIN credentials = Controllers /\ StoredAreProven
  BY DEF PairingInv
<1>2. DOMAIN handlers' = Controllers /\ handlers'[u] = h /\ \A v \in Controllers : v # u => handlers'[v] = handlers[v]
  BY <1>1 DEF HandlersInv
<1>3. /\ DOMAIN verified' = DOMAIN verified \cup {n} /\ verified'[n] = [creds |-> creds, secret |-> secret]
      /\ \A k \in DOMAIN verified : k # n => verified'[k] = verified[k]
  BY DEF Passes
<1>4. /\ HandlerShape(handlers[u], lastRun) /\ lastRun \in 0..MaxRuns /\ MaxRuns \in Nat
      /\ \A v, w \in Controllers, k \in Runs : InRun(handlers[v], k) /\ InRun(handlers[w], k) => v = w
  BY <1>1, PairingAssumption DEF HandlersInv
<1>5. n \in 1..lastRun /\ n \in Runs /\ InRun(handlers[u], n) /\ ~InRun(h, n)
  <2>1. n \in 0..lastRun /\ n # 0 /\ (h.procedure # Missing => h.procedure.run # n) /\ h.run = 0
    BY <1>4 DEF HandlerShape
  <2> QED BY <1>4, <2>1 DEF Runs, InRun
<1>6. Knows(h)
  BY DEF Knows
<1>7. \A v \in Controllers, k \in Runs : InRun(handlers'[v], k) => InRun(handlers[v], k)
  <2>1. \A k \in Runs : InRun(h, k) => InRun(handlers[u], k)
    BY DEF InRun, HandlerShape, Runs
  <2> QED BY <1>2, <2>1
<1>8. HandlersInv'
  <2>1. \A v \in Controllers : HandlerShape(handlers'[v], lastRun') /\ Knows(handlers'[v])
    BY <1>1, <1>2, <1>6 DEF HandlersInv
  <2>2. \A v, w \in Controllers, k \in Runs : InRun(handlers'[v], k) /\ InRun(handlers'[w], k) => v = w
    BY <1>4, <1>7
  <2> QED BY <1>2, <1>4, <2>1, <2>2 DEF HandlersInv, Runs
<1>9. WireInv'
  BY <1>1 DEF WireInv, Runs
<1>10. StepsInv'
  <2> SUFFICES ASSUME NEW v \in Controllers, handlers'[v].step # "idle"
               PROVE  /\ wire[handlers'[v].run] # Missing =>
                            Asks(handlers'[v], wire[handlers'[v].run].kind, wire[handlers'[v].run].state, wire[handlers'[v].run].data)
                      /\ answers[handlers'[v].run] # Missing =>
                            Means(handlers'[v], answers[handlers'[v].run], transport[handlers'[v].run])
    BY DEF StepsInv
  <2>1. handlers'[v] = handlers[v]
    BY <1>2
  <2> QED BY <1>1, <2>1 DEF StepsInv
<1>11. wire[n] = Missing
  BY <1>1, <1>5 DEF WireInv
<1>12. VerifiedInv'
  <2> SUFFICES ASSUME NEW k \in DOMAIN verified'
               PROVE  k \in 1..lastRun /\ wire[k] = Missing /\ \A v \in Controllers : ~InRun(handlers'[v], k)
    BY DEF VerifiedInv
  <2>1. CASE k = n
    <3>1. \A v \in Controllers : v # u => ~InRun(handlers[v], n)
      BY <1>4, <1>5
    <3> QED BY <1>2, <1>5, <1>11, <2>1, <3>1
  <2>2. CASE k # n
    <3>1. k \in DOMAIN verified
      BY <1>3, <2>2
    <3>2. k \in 1..lastRun /\ wire[k] = Missing /\ \A v \in Controllers : ~InRun(handlers[v], k)
      BY <1>1, <3>1 DEF VerifiedInv
    <3>3. k \in Runs
      BY <1>4, <3>2 DEF Runs
    <3> QED BY <1>7, <3>2, <3>3
  <2> QED BY <2>1, <2>2
<1>13. n \notin DOMAIN verified
  BY <1>1, <1>5 DEF VerifiedInv
<1>14. StoredAreProven'
  <2>1. ASSUME NEW k \in DOMAIN verified'
        PROVE  /\ transport[k] = verified'[k].secret /\ answers[k].data # TlvError
               /\ verified'[k].creds # Missing => verified'[k].secret = Secret(k, verified'[k].creds.ltpk)
    <3>1. CASE k = n
      BY <1>3, <3>1
    <3>2. CASE k # n
      <4>1. k \in DOMAIN verified /\ verified'[k] = verified[k]
        BY <1>3, <3>2
      <4> QED BY <1>1, <4>1 DEF StoredAreProven
    <3> QED BY <3>1, <3>2
  <2>2. ASSUME NEW v \in Controllers, credentials'[v] # Missing
        PROVE  \E k \in DOMAIN verified' : verified'[k].creds = credentials'[v]
    <3>1. CASE credentials'[v] = credentials[v]
      <4>1. PICK k \in DOMAIN verified : verified[k].creds = credentials[v]
        BY <1>1, <2>2, <3>1 DEF StoredAreProven
      <4>2. k \in DOMAIN verified' /\ verified'[k] = verified[k]
        BY <1>3, <1>13
      <4> QED BY <3>1, <4>1, <4>2
    <3>2. CASE credentials'[v] # credentials[v]
      <4>1. credentials'[v] = creds
        BY <1>1, <3>2
      <4>2. n \in DOMAIN verified' /\ verified'[n].creds = creds
        BY <1>3
      <4> QED BY <4>1, <4>2
    <3> QED BY <3>1, <3>2
  <2> QED BY <2>1, <2>2 DEF StoredAreProven
<1>15. DevicesInv' /\ DOMAIN credentials' = Controllers
  BY <1>1 DEF DevicesInv
<1> QED BY <1>8, <1>9, <1>10, <1>12, <1>14, <1>15 DEF PairingInv

\* The session ends: what is left is the procedure.
LEMMA AtRestFacts ==
  ASSUME PairingInv, NEW u \in Controllers
  PROVE  /\ HandlerShape(handlers[u], lastRun) /\ Knows(handlers[u])
         /\ HandlerShape(AtRest(u), lastRun) /\ AtRest(u).step = "idle" /\ AtRest(u).run = 0
         /\ AtRest(u).procedure = handlers[u].procedure
<1>1. HandlerShape(handlers[u], lastRun) /\ Knows(handlers[u]) /\ lastRun \in Nat
  BY PairingAssumption DEF PairingInv, HandlersInv
<1> DEFINE h == handlers[u]
<1>2. DOMAIN h = {"step", "run", "device", "procedure", "pin", "key", "creds", "has_paired"}
  BY <1>1 DEF HandlerShape
<1>3. /\ DOMAIN AtRest(u) = DOMAIN h /\ AtRest(u).step = "idle" /\ AtRest(u).run = 0
      /\ AtRest(u).procedure = h.procedure
  BY <1>2 DEF AtRest
<1>4. h.procedure # Missing =>
        h.procedure.run \in 1..lastRun /\ h.procedure.run # h.run /\ h.procedure.device \in Devices
  BY <1>1 DEF HandlerShape
<1> HIDE DEF h
<1>5. HandlerShape(AtRest(u), lastRun)
  BY <1>1, <1>2, <1>3, <1>4 DEF HandlerShape
<1> QED BY <1>1, <1>3, <1>5 DEF h

\* The runs of a user that has begun are among those there are.
LEMMA OwnRun ==
  ASSUME PairingInv, NEW u \in Controllers
  PROVE  /\ lastRun \in 0..MaxRuns /\ MaxRuns \in Nat /\ lastRun \in Nat
         /\ handlers[u].step # "idle" =>
               handlers[u].run \in Runs /\ handlers[u].run # 0 /\ InRun(handlers[u], handlers[u].run)
<1>1. lastRun \in 0..MaxRuns /\ MaxRuns \in Nat /\ HandlerShape(handlers[u], lastRun)
  BY PairingAssumption DEF PairingInv, HandlersInv
<1>2. handlers[u].run \in 0..lastRun /\ (handlers[u].run = 0 <=> handlers[u].step = "idle")
  BY <1>1 DEF HandlerShape
<1> QED BY <1>1, <1>2 DEF Runs, InRun

\* A step that fails.
LEMMA FailsKeeps ==
  ASSUME PairingInv, NEW u \in Controllers, Fails(u)
  PROVE  PairingInv'
<1> DEFINE h == AtRest(u)
<1>1. HandlerShape(h, lastRun) /\ h.step = "idle" /\ h.run = 0 /\ h.procedure = handlers[u].procedure
  BY AtRestFacts
<1>2. handlers' = [handlers EXCEPT ![u] = h] /\ UNCHANGED <<lastRun, wire, answers, accessories, transport, verified, credentials>>
  BY DEF Fails
<1> HIDE DEF h
<1>3. \A n \in Runs : InRun(h, n) => InRun(handlers[u], n)
  BY <1>1 DEF InRun, Runs
<1> QED BY <1>1, <1>2, <1>3, RestKeeps

\* The device has answered: its run becomes the procedure.
LEMMA HoldChallengeKeeps ==
  ASSUME PairingInv, NEW u \in Controllers, HoldChallenge(u)
  PROVE  PairingInv'
<1> DEFINE p == [run |-> handlers[u].run, device |-> handlers[u].device]
           rest == AtRest(u)
           h == [rest EXCEPT !.procedure = p, !.has_paired = FALSE]
<1>1. /\ handlers[u].step # "idle" /\ handlers' = [handlers EXCEPT ![u] = h]
      /\ UNCHANGED <<lastRun, wire, answers, accessories, transport, verified, credentials>>
  BY DEF HoldChallenge, Waits
<1>2. HandlerShape(rest, lastRun) /\ rest.step = "idle" /\ rest.run = 0 /\ HandlerShape(handlers[u], lastRun)
  BY AtRestFacts
<1>3. handlers[u].run \in 1..lastRun /\ handlers[u].device \in Devices
  BY <1>1, <1>2, OwnRun DEF HandlerShape
<1>4. p.run = handlers[u].run /\ p.run \in 1..lastRun /\ p.device \in Devices
  BY <1>3
<1> HIDE DEF rest, p
<1>5. /\ DOMAIN rest = {"step", "run", "device", "procedure", "pin", "key", "creds", "has_paired"}
      /\ DOMAIN h = DOMAIN rest /\ h.step = "idle" /\ h.run = 0 /\ h.procedure = p
  BY <1>2 DEF HandlerShape
<1> HIDE DEF h
<1>6. HandlerShape(h, lastRun)
  BY <1>2, <1>4, <1>5, OwnRun DEF HandlerShape
<1>7. \A n \in Runs : InRun(h, n) => InRun(handlers[u], n)
  BY <1>4, <1>5 DEF InRun, Runs
<1> QED BY <1>1, <1>5, <1>6, <1>7, RestKeeps

\* A PIN, or the end of the procedure.
LEMMA IdleKeeps ==
  ASSUME PairingInv, NEW u \in Controllers, EnterPin(u) \/ ClosePairing(u)
  PROVE  PairingInv'
<1>1. HandlerShape(handlers[u], lastRun)
  BY AtRestFacts
<1>2. DOMAIN handlers[u] = {"step", "run", "device", "procedure", "pin", "key", "creds", "has_paired"} /\ DOMAIN handlers = Controllers
  BY <1>1 DEF HandlerShape, PairingInv, HandlersInv
<1>3. CASE EnterPin(u)
  <2>1. PICK pin \in Pins : handlers' = [handlers EXCEPT ![u].pin = pin]
    BY <1>3 DEF EnterPin
  <2> DEFINE h == [handlers[u] EXCEPT !.pin = pin]
  <2>2. handlers' = [handlers EXCEPT ![u] = h] /\ handlers[u].step = "idle"
    BY <1>3, <2>1 DEF EnterPin
  <2>3. UNCHANGED <<lastRun, wire, answers, accessories, transport, verified, credentials>>
    BY <1>3 DEF EnterPin
  <2>4. /\ DOMAIN h = DOMAIN handlers[u] /\ h.step = handlers[u].step /\ h.run = handlers[u].run
        /\ h.device = handlers[u].device /\ h.procedure = handlers[u].procedure
    BY <1>2
  <2> HIDE DEF h
  <2>5. HandlerShape(h, lastRun)
    BY <1>1, <2>4 DEF HandlerShape
  <2>6. \A n \in Runs : InRun(h, n) => InRun(handlers[u], n)
    BY <2>4 DEF InRun
  <2> QED BY <2>2, <2>3, <2>4, <2>5, <2>6, RestKeeps
<1>4. CASE ClosePairing(u)
  <2> DEFINE h == [handlers[u] EXCEPT !.procedure = Missing]
  <2>2. handlers' = [handlers EXCEPT ![u] = h] /\ handlers[u].step = "idle"
    BY <1>4 DEF ClosePairing
  <2>3. UNCHANGED <<lastRun, wire, answers, accessories, transport, verified, credentials>>
    BY <1>4 DEF ClosePairing
  <2>4. /\ DOMAIN h = DOMAIN handlers[u] /\ h.step = handlers[u].step /\ h.run = handlers[u].run
        /\ h.device = handlers[u].device /\ h.procedure = Missing
    BY <1>2
  <2> HIDE DEF h
  <2>5. HandlerShape(h, lastRun)
    BY <1>1, <2>4 DEF HandlerShape
  <2>6. \A n \in Runs : InRun(h, n) => InRun(handlers[u], n)
    BY <2>4 DEF InRun
  <2> QED BY <2>2, <2>3, <2>4, <2>5, <2>6, RestKeeps
<1> QED BY <1>3, <1>4

\* The number a run gets is one no run has.
LEMMA RunsGrow ==
  ASSUME NEW k \in Nat
  PROVE  k + 1 # 0 /\ k + 1 \in 0..(k + 1) /\ \A n \in 1..k : n \in 1..(k + 1) /\ n # k + 1
<1>1. k + 1 # 0
  OBVIOUS
<1>2. k + 1 \in 0..(k + 1)
  OBVIOUS
<1>3. ASSUME NEW n \in 1..k
      PROVE  n \in 1..(k + 1) /\ n # k + 1
  BY <1>3
<1> QED BY <1>1, <1>2, <1>3

\* A handler that begins a run.
LEMMA BegunFacts ==
  ASSUME PairingInv, NEW u \in Controllers, NEW d \in Devices,
         NEW step \in {"M2", "verify M2", "transient M2"}, NewRun(u)
  PROVE  /\ HandlerShape(Begun(u, d, step), lastRun + 1) /\ Begun(u, d, step).run = lastRun + 1
         /\ Begun(u, d, step).step = step /\ Begun(u, d, step).procedure = handlers[u].procedure
         /\ lastRun' = lastRun + 1 /\ lastRun < MaxRuns /\ lastRun + 1 # 0
<1> DEFINE h == handlers[u]
<1>1. HandlerShape(h, lastRun) /\ lastRun \in Nat /\ h.step = "idle" /\ lastRun' = lastRun + 1 /\ lastRun < MaxRuns
  BY AtRestFacts, OwnRun DEF NewRun
<1>2. DOMAIN h = {"step", "run", "device", "procedure", "pin", "key", "creds", "has_paired"}
  BY <1>1 DEF HandlerShape
<1>3. /\ DOMAIN Begun(u, d, step) = DOMAIN h /\ Begun(u, d, step).step = step /\ Begun(u, d, step).run = lastRun + 1
      /\ Begun(u, d, step).device = d /\ Begun(u, d, step).procedure = h.procedure
  BY <1>2 DEF Begun
<1>4. h.procedure # Missing => h.procedure.run \in 1..lastRun /\ h.procedure.device \in Devices
  BY <1>1 DEF HandlerShape
<1> HIDE DEF h
<1>5. step # "idle"
  OBVIOUS
<1> DEFINE b == Begun(u, d, step)
<1> HIDE DEF b
<1>6. /\ DOMAIN b = DOMAIN h /\ b.step = step /\ b.run = lastRun + 1 /\ b.device = d /\ b.procedure = h.procedure
  BY <1>3 DEF b
<1>7. lastRun \in Nat
  BY <1>1
<1>8. /\ lastRun + 1 # 0 /\ lastRun + 1 \in 0..(lastRun + 1)
      /\ \A n \in 1..lastRun : n \in 1..(lastRun + 1) /\ n # lastRun + 1
  BY <1>7, RunsGrow
<1>9. b.procedure # Missing => /\ b.procedure.run \in 1..(lastRun + 1) /\ b.procedure.run # lastRun + 1
                               /\ b.procedure.device \in Devices
  BY ONLY <1>4, <1>6, <1>8
<1>10. HandlerShape(b, lastRun + 1)
  BY ONLY <1>2, <1>5, <1>6, <1>8, <1>9, d \in Devices DEF HandlerShape
<1>11. b.procedure = handlers[u].procedure
  BY <1>6 DEF h
<1> QED BY <1>1, <1>6, <1>8, <1>11, <1>10 DEF b

\* The next message of a new run.
LEMMA BeginKeeps ==
  ASSUME PairingInv, NEW u \in Controllers, NEW h, NEW kind, NEW data, NewRun(u),
         HandlerShape(h, lastRun + 1), h.run = lastRun + 1, h.procedure = handlers[u].procedure,
         h.step \in {"M2", "verify M2", "transient M2"}, kind \in {"setup", "verify"},
         h.step = "verify M2" => kind = "verify",
         SendStep(u, h, kind, 1, data), UNCHANGED <<accessories, transport, verified, credentials>>
  PROVE  PairingInv'
<1>1. lastRun' = lastRun + 1 /\ lastRun < MaxRuns /\ lastRun + 1 # 0
  <2>1. lastRun \in Nat
    BY OwnRun
  <2>2. lastRun' = lastRun + 1 /\ lastRun < MaxRuns
    BY ONLY NewRun(u) DEF NewRun
  <2>3. lastRun + 1 # 0
    BY ONLY <2>1
  <2> QED BY ONLY <2>2, <2>3
<1>2. Knows(h) /\ Asks(h, kind, 1, data) /\ Sent(kind, 1)
  BY DEF Knows, Asks, Sent
<1>3. HandlerShape(h, lastRun')
  BY <1>1
<1> QED BY <1>1, <1>2, <1>3, SendKeeps

\* The next message of the run under way.
LEMMA GoesOn ==
  ASSUME PairingInv, NEW u \in Controllers, handlers[u].step # "idle",
         NEW h, DOMAIN h = DOMAIN handlers[u], h.step # "idle", h.run = handlers[u].run,
         h.device = handlers[u].device, h.procedure = handlers[u].procedure,
         NEW kind, NEW state, NEW data, Knows(h), Sent(kind, state), Asks(h, kind, state, data),
         SendStep(u, h, kind, state, data),
         UNCHANGED <<lastRun, accessories, transport, verified, credentials>>
  PROVE  PairingInv'
<1> DEFINE n == handlers[u].run
<1>1. HandlerShape(handlers[u], lastRun)
  BY AtRestFacts
<1>2. n # 0 /\ InRun(handlers[u], n)
  BY OwnRun
<1>3. HandlerShape(h, lastRun)
  BY <1>1 DEF HandlerShape
<1>4. lastRun' = lastRun /\ HandlerShape(h, lastRun')
  BY <1>3
<1> HIDE DEF n
<1>5. h.run = n
  BY DEF n
<1> QED BY <1>2, <1>4, <1>5, SendKeeps

\* begin, and verifying what is stored, and the transient procedure.
LEMMA BeginPairingKeeps ==
  ASSUME PairingInv, NEW u \in Controllers, NEW d \in Devices, BeginPairing(u, d)
  PROVE  PairingInv'
<1> DEFINE h == Begun(u, d, "M2")
<1>1. NewRun(u) /\ SendStep(u, h, "setup", 1, "pin") /\ UNCHANGED <<accessories, transport, verified, credentials>>
  BY DEF BeginPairing
<1>2. /\ HandlerShape(h, lastRun + 1) /\ h.run = lastRun + 1 /\ h.procedure = handlers[u].procedure /\ h.step = "M2"
  BY <1>1, BegunFacts
<1> HIDE DEF h
<1> QED BY <1>1, <1>2, BeginKeeps

\* TransientPairSetup begins: like begin, with its own first message.
LEMMA BeginTransientKeeps ==
  ASSUME PairingInv, NEW u \in Controllers, NEW d \in Devices, BeginTransient(u, d)
  PROVE  PairingInv'
<1> DEFINE h == Begun(u, d, "transient M2")
<1>1. NewRun(u) /\ SendStep(u, h, "setup", 1, "transient") /\ UNCHANGED <<accessories, transport, verified, credentials>>
  BY DEF BeginTransient
<1>2. /\ HandlerShape(h, lastRun + 1) /\ h.run = lastRun + 1 /\ h.procedure = handlers[u].procedure
      /\ h.step = "transient M2"
  <2>1. u \in Controllers /\ d \in Devices /\ NewRun(u) /\ "transient M2" \in {"M2", "verify M2", "transient M2"}
    BY <1>1
  <2>2. /\ HandlerShape(Begun(u, d, "transient M2"), lastRun + 1) /\ Begun(u, d, "transient M2").run = lastRun + 1
        /\ Begun(u, d, "transient M2").procedure = handlers[u].procedure /\ Begun(u, d, "transient M2").step = "transient M2"
    BY <2>1, BegunFacts
  <2> QED BY ONLY <2>2 DEF h
<1> HIDE DEF h
<1> QED BY <1>1, <1>2, BeginKeeps

\* Verifying what is stored: the run knows its credentials from the start.
LEMMA VerifyStoredKeeps ==
  ASSUME PairingInv, NEW u \in Controllers, NEW d \in Devices, VerifyStored(u, d)
  PROVE  PairingInv'
<1> DEFINE b == Begun(u, d, "verify M2")
           h == [b EXCEPT !.creds = credentials[u]]
<1>1. /\ NewRun(u) /\ SendStep(u, h, "verify", 1, lastRun + 1)
      /\ UNCHANGED <<accessories, transport, verified, credentials>>
  BY DEF VerifyStored
<1>2. /\ HandlerShape(b, lastRun + 1) /\ b.run = lastRun + 1 /\ b.procedure = handlers[u].procedure
      /\ b.step = "verify M2"
  <2>1. u \in Controllers /\ d \in Devices /\ NewRun(u) /\ "verify M2" \in {"M2", "verify M2", "transient M2"}
    BY <1>1
  <2>2. /\ HandlerShape(Begun(u, d, "verify M2"), lastRun + 1) /\ Begun(u, d, "verify M2").run = lastRun + 1
        /\ Begun(u, d, "verify M2").procedure = handlers[u].procedure /\ Begun(u, d, "verify M2").step = "verify M2"
    BY <2>1, BegunFacts
  <2> QED BY ONLY <2>2 DEF b
<1> HIDE DEF b
<1>3. DOMAIN b = {"step", "run", "device", "procedure", "pin", "key", "creds", "has_paired"}
  BY <1>2 DEF HandlerShape
<1>4. /\ DOMAIN h = DOMAIN b /\ h.run = b.run /\ h.procedure = b.procedure /\ h.step = b.step /\ h.device = b.device
  BY <1>3
<1> HIDE DEF h
<1>5. HandlerShape(h, lastRun + 1)
  BY <1>2, <1>4 DEF HandlerShape
<1> QED BY <1>1, <1>2, <1>4, <1>5, BeginKeeps

\* finish: the run that was held goes on.
LEMMA FinishPairingKeeps ==
  ASSUME PairingInv, NEW u \in Controllers, FinishPairing(u)
  PROVE  PairingInv'
<1> DEFINE p == handlers[u].procedure
           key == SrpKey(handlers[u].pin, p.run, answers[p.run].data)
           h == [handlers[u] EXCEPT !.procedure = Missing, !.step = "M4", !.run = p.run,
                                    !.device = p.device, !.key = key]
           data == [public_key |-> p.run, proof |-> key]
<1>1. /\ p # Missing /\ SendStep(u, h, "setup", 3, data)
      /\ UNCHANGED <<lastRun, accessories, transport, verified, credentials>>
  BY DEF FinishPairing
<1>2. HandlerShape(handlers[u], lastRun) /\ lastRun \in Nat
  BY AtRestFacts, OwnRun
<1>3. p.run \in 1..lastRun /\ p.device \in Devices
  BY <1>1, <1>2 DEF HandlerShape
<1>4. DOMAIN handlers[u] = {"step", "run", "device", "procedure", "pin", "key", "creds", "has_paired"}
  BY <1>2 DEF HandlerShape
<1> HIDE DEF key, data
<1>5. /\ DOMAIN h = DOMAIN handlers[u] /\ h.procedure = Missing /\ h.step = "M4" /\ h.run = p.run /\ h.device = p.device
  BY <1>4
<1> HIDE DEF h
<1>6. HandlerShape(h, lastRun)
  BY <1>2, <1>3, <1>4, <1>5 DEF HandlerShape
<1>7. Knows(h) /\ Sent("setup", 3) /\ Asks(h, "setup", 3, data)
  BY <1>5 DEF Knows, Sent, Asks
<1> DEFINE n == p.run
<1>8. InRun(handlers[u], n) /\ n # 0
  BY <1>1, <1>2, <1>3 DEF InRun
<1>9. lastRun' = lastRun /\ HandlerShape(h, lastRun') /\ h.run = n
  BY <1>1, <1>5, <1>6
<1> HIDE DEF n
<1> QED BY <1>1, <1>5, <1>7, <1>8, <1>9, SendKeeps

\* A handler in a later step of its run.
LEMMA LaterFacts ==
  ASSUME PairingInv, NEW u \in Controllers, NEW step, NEW key, NEW creds
  PROVE  LET h == handlers[u]
             x == [h EXCEPT !.step = step]
             y == [h EXCEPT !.step = step, !.key = key]
             z == [h EXCEPT !.step = step, !.key = key, !.creds = creds]
         IN  /\ DOMAIN x = DOMAIN h /\ x.step = step /\ x.run = h.run /\ x.device = h.device
             /\ x.procedure = h.procedure
             /\ DOMAIN y = DOMAIN h /\ y.step = step /\ y.run = h.run /\ y.device = h.device
             /\ y.procedure = h.procedure /\ y.key = key /\ y.creds = h.creds
             /\ DOMAIN z = DOMAIN h /\ z.step = step /\ z.run = h.run /\ z.device = h.device
             /\ z.procedure = h.procedure
<1>1. DOMAIN handlers[u] = {"step", "run", "device", "procedure", "pin", "key", "creds", "has_paired"}
  BY AtRestFacts DEF HandlerShape
<1> QED BY <1>1

\* The identity is sent, the credentials are taken: nothing is known of their runs yet.
LEMMA SendIdentityKeeps ==
  ASSUME PairingInv, NEW u \in Controllers, SendIdentity(u)
  PROVE  PairingInv'
<1> DEFINE h == [handlers[u] EXCEPT !.step = "M6"]
           data == [sealed |-> handlers[u].key, identifier |-> handlers[u].run, public_key |-> handlers[u].run,
                    signature |-> <<handlers[u].run, handlers[u].key, handlers[u].run>>]
<1>1. /\ handlers[u].step # "idle" /\ SendStep(u, h, "setup", 5, data)
      /\ UNCHANGED <<lastRun, accessories, transport, verified, credentials>>
  BY DEF SendIdentity, Waits
<1>2. /\ DOMAIN h = DOMAIN handlers[u] /\ h.step = "M6" /\ h.run = handlers[u].run /\ h.device = handlers[u].device
      /\ h.procedure = handlers[u].procedure
  BY LaterFacts
<1> HIDE DEF h, data
<1>3. Knows(h) /\ Sent("setup", 5) /\ Asks(h, "setup", 5, data)
  BY <1>2 DEF Knows, Sent, Asks
<1> QED BY <1>1, <1>2, <1>3, GoesOn

\* The device answers M5 with its own identity: the credentials are known, verification begins.
LEMMA TakeCredentialsKeeps ==
  ASSUME PairingInv, NEW u \in Controllers, TakeCredentials(u)
  PROVE  PairingInv'
<1> DEFINE creds == [ltpk |-> Answer(u).public_key, atv_id |-> Answer(u).identifier,
                     ltsk |-> handlers[u].run, client_id |-> handlers[u].run]
           h == [handlers[u] EXCEPT !.step = "verify M2", !.key = Missing, !.creds = creds]
           data == handlers[u].run
<1>1. /\ handlers[u].step # "idle" /\ SendStep(u, h, "verify", 1, data)
      /\ UNCHANGED <<lastRun, accessories, transport, verified, credentials>>
  BY DEF TakeCredentials, Waits
<1> HIDE DEF creds
<1>2. /\ DOMAIN h = DOMAIN handlers[u] /\ h.step = "verify M2" /\ h.run = handlers[u].run /\ h.device = handlers[u].device
      /\ h.procedure = handlers[u].procedure
  BY LaterFacts
<1> HIDE DEF h, data
<1>3. Knows(h) /\ Sent("verify", 1) /\ Asks(h, "verify", 1, data)
  BY <1>2 DEF Knows, Sent, Asks
<1> QED BY <1>1, <1>2, <1>3, GoesOn

\* handle_m2: the device has shown the key its credentials name, so the secret is shared with it.
LEMMA ProveIdentityKeeps ==
  ASSUME PairingInv, NEW u \in Controllers, ProveIdentity(u)
  PROVE  PairingInv'
<1> DEFINE secret == Secret(handlers[u].run, Answer(u).public_key)
           h == [handlers[u] EXCEPT !.step = "verify M4", !.key = secret]
           data == [sealed |-> secret, identifier |-> handlers[u].creds.client_id,
                    signature |-> <<handlers[u].creds.ltsk, handlers[u].run, handlers[u].creds.client_id,
                                    Answer(u).public_key>>]
<1>1. /\ handlers[u].step = "verify M2" /\ answers[handlers[u].run] # Missing
      /\ SendStep(u, h, "verify", 3, data) /\ UNCHANGED <<lastRun, accessories, transport, verified, credentials>>
      /\ Answer(u).signature = <<handlers[u].creds.ltpk, Answer(u).public_key, handlers[u].creds.atv_id, handlers[u].run>>
  BY DEF ProveIdentity, Waits
<1>2. Answer(u).signature[1] = Answer(u).public_key
  <2>1. Means(handlers[u], answers[handlers[u].run], transport[handlers[u].run])
    BY <1>1 DEF PairingInv, StepsInv
  <2> QED BY <1>1, <2>1 DEF Means, Answer
<1>3. handlers[u].creds.ltpk = Answer(u).public_key
  <2> DEFINE signature == <<handlers[u].creds.ltpk, Answer(u).public_key, handlers[u].creds.atv_id, handlers[u].run>>
  <2>1. signature[1] = handlers[u].creds.ltpk
    OBVIOUS
  <2>2. Answer(u).signature = signature
    BY <1>1
  <2> HIDE DEF signature
  <2> QED BY ONLY <1>2, <2>1, <2>2
<1>4. secret = Secret(handlers[u].run, handlers[u].creds.ltpk) /\ data.sealed = secret
  BY <1>3
<1> HIDE DEF secret
<1>5. /\ DOMAIN h = DOMAIN handlers[u] /\ h.step = "verify M4" /\ h.run = handlers[u].run /\ h.device = handlers[u].device
      /\ h.procedure = handlers[u].procedure /\ h.key = secret /\ h.creds = handlers[u].creds
  BY LaterFacts
<1> HIDE DEF h, data
<1>6. Knows(h) /\ Sent("verify", 3) /\ Asks(h, "verify", 3, data)
  BY <1>4, <1>5 DEF Knows, Sent, Asks
<1> QED BY <1>1, <1>5, <1>6, GoesOn

\* TransientPairSetup sends its proof of the PIN everyone knows.
LEMMA ContinueTransientKeeps ==
  ASSUME PairingInv, NEW u \in Controllers, ContinueTransient(u)
  PROVE  PairingInv'
<1> DEFINE key == SrpKey(TransientPin, handlers[u].run, Answer(u))
           h == [handlers[u] EXCEPT !.step = "transient M4", !.key = key]
           data == [public_key |-> handlers[u].run, proof |-> key]
<1>1. /\ handlers[u].step # "idle" /\ SendStep(u, h, "setup", 3, data)
      /\ UNCHANGED <<lastRun, accessories, transport, verified, credentials>>
  BY DEF ContinueTransient, Waits
<1>2. key[2] = TransientPin /\ data.proof = key
  BY DEF SrpKey
<1> HIDE DEF key
<1>3. /\ DOMAIN h = DOMAIN handlers[u] /\ h.step = "transient M4" /\ h.run = handlers[u].run
      /\ h.device = handlers[u].device /\ h.procedure = handlers[u].procedure /\ h.key = key
  BY LaterFacts
<1> HIDE DEF h, data
<1>4. Knows(h) /\ Sent("setup", 3) /\ Asks(h, "setup", 3, data)
  BY <1>2, <1>3 DEF Knows, Sent, Asks
<1> QED BY <1>1, <1>3, <1>4, GoesOn

\* handle_m4: the device has installed the secret, and the credentials are those it was shared under.
LEMMA CompleteVerifyKeeps ==
  ASSUME PairingInv, NEW u \in Controllers, CompleteVerify(u)
  PROVE  PairingInv'
<1> DEFINE n == handlers[u].run
           creds == handlers[u].creds
           secret == handlers[u].key
           paired == AtRest(u).has_paired \/ creds.client_id = n
           rest == AtRest(u)
           h == [rest EXCEPT !.has_paired = paired]
<1>1. /\ handlers[u].step = "verify M4" /\ answers[n] # Missing /\ Passes(n, creds, secret)
      /\ answers[n].data # TlvError
      /\ credentials' = [credentials EXCEPT ![u] = creds]
      /\ UNCHANGED <<lastRun, wire, answers, accessories, transport>>
  BY DEF CompleteVerify, Waits, AcceptsM4, Accepted
<1>2. handlers' = [handlers EXCEPT ![u] = h]
  BY DEF CompleteVerify
<1>3. HandlerShape(rest, lastRun) /\ rest.step = "idle" /\ rest.run = 0 /\ rest.procedure = handlers[u].procedure
      /\ Knows(handlers[u])
  BY AtRestFacts
<1>4. Means(handlers[u], answers[n], transport[n])
  BY <1>1 DEF PairingInv, StepsInv
<1>5. transport[n] = secret /\ (creds # Missing => secret = Secret(n, creds.ltpk))
  BY <1>1, <1>3, <1>4 DEF Means, Knows
<1> HIDE DEF paired, rest
<1>6. /\ DOMAIN rest = {"step", "run", "device", "procedure", "pin", "key", "creds", "has_paired"}
      /\ DOMAIN h = DOMAIN rest /\ h.step = rest.step /\ h.run = rest.run /\ h.procedure = rest.procedure
      /\ h.device = rest.device
  BY <1>3 DEF HandlerShape
<1> HIDE DEF h
<1>7. HandlerShape(h, lastRun) /\ h.step = "idle" /\ h.procedure = handlers[u].procedure
  BY <1>3, <1>6 DEF HandlerShape
<1>8. handlers[u].step # "idle" /\ n = handlers[u].run
  BY <1>1
<1> HIDE DEF n, creds, secret
<1> QED BY <1>1, <1>2, <1>5, <1>7, <1>8, PassKeeps

\* Transient pairing ends: the device has shown the key, and nothing is to be stored.
LEMMA CompleteTransientKeeps ==
  ASSUME PairingInv, NEW u \in Controllers, CompleteTransient(u)
  PROVE  PairingInv'
<1> DEFINE n == handlers[u].run
           secret == handlers[u].key
           h == AtRest(u)
<1>1. /\ handlers[u].step = "transient M4" /\ answers[n] # Missing /\ Passes(n, Missing, secret)
      /\ answers[n].data # TlvError /\ handlers' = [handlers EXCEPT ![u] = h]
      /\ UNCHANGED <<lastRun, wire, answers, accessories, transport, credentials>>
  BY DEF CompleteTransient, Waits, Accepted
<1>2. HandlerShape(h, lastRun) /\ h.step = "idle" /\ h.procedure = handlers[u].procedure
  BY AtRestFacts
<1>3. Means(handlers[u], answers[n], transport[n])
  BY <1>1 DEF PairingInv, StepsInv
<1>4. transport[n] = secret
  BY <1>1, <1>3 DEF Means
<1>5. handlers[u].step # "idle" /\ n = handlers[u].run
  BY <1>1
<1> DEFINE creds == Missing
<1>6. Passes(n, creds, secret) /\ (creds # Missing => secret = Secret(n, creds.ltpk))
  BY <1>1
<1> HIDE DEF n, secret, h, creds
<1> QED BY <1>1, <1>2, <1>4, <1>5, <1>6, PassKeeps

\* Somebody removes the pairings at the device.
LEMMA DropsPairingsKeeps ==
  ASSUME PairingInv, NEW d \in Devices, DropsPairings(d)
  PROVE  PairingInv'
<1>1. /\ accessories' = [accessories EXCEPT ![d].pairings = <<>>]
      /\ UNCHANGED <<handlers, lastRun, wire, answers, transport, verified, credentials>>
  BY DEF DropsPairings
<1>2. HandlersInv /\ WireInv /\ StepsInv /\ VerifiedInv /\ DevicesInv /\ DOMAIN credentials = Controllers /\ StoredAreProven
  BY DEF PairingInv
<1> DEFINE a == accessories[d]
           b == [setup |-> a.setup, pairings |-> <<>>, secret |-> a.secret, ephemeral |-> a.ephemeral]
<1>3. AccessoryShape(a)
  BY <1>2 DEF DevicesInv
<1>4. [a EXCEPT !.pairings = <<>>] = b
  <2>1. a = [setup |-> a.setup, pairings |-> a.pairings, secret |-> a.secret, ephemeral |-> a.ephemeral]
    BY <1>3 DEF AccessoryShape
  <2> HIDE DEF a
  <2> QED BY <2>1
<1>5. AccessoryShape(b)
  BY <1>3, AccessoryOf DEF AccessoryShape
<1>6. accessories' = [accessories EXCEPT ![d] = b]
  BY <1>1, <1>2, <1>4 DEF DevicesInv
<1> HIDE DEF a, b
<1>7. DevicesInv'
  BY <1>2, <1>5, <1>6 DEF DevicesInv
<1>8. HandlersInv' /\ WireInv'
  BY <1>1, <1>2 DEF HandlersInv, WireInv, Runs
<1>9. StepsInv' /\ VerifiedInv' /\ StoredAreProven'
  BY <1>1, <1>2 DEF StepsInv, VerifiedInv, StoredAreProven
<1> QED BY <1>1, <1>2, <1>7, <1>8, <1>9 DEF PairingInv

\* PairingInv is inductive.
LEMMA PairingSteps == PairingInv /\ [PairingNext]_pairingVars => PairingInv'
<1> SUFFICES ASSUME PairingInv, [PairingNext]_pairingVars PROVE PairingInv'
  OBVIOUS
<1>1. ASSUME NEW u \in Controllers,
             \/ \E d \in Devices : BeginPairing(u, d) \/ VerifyStored(u, d) \/ BeginTransient(u, d)
             \/ HoldChallenge(u) \/ EnterPin(u) \/ FinishPairing(u) \/ SendIdentity(u)
             \/ TakeCredentials(u) \/ ProveIdentity(u) \/ CompleteVerify(u)
             \/ ContinueTransient(u) \/ CompleteTransient(u)
             \/ Refused(u) \/ GivesUp(u) \/ ClosePairing(u)
      PROVE  PairingInv'
  <2>1. CASE \E d \in Devices : BeginPairing(u, d) \/ VerifyStored(u, d) \/ BeginTransient(u, d)
    BY <2>1, BeginPairingKeeps, VerifyStoredKeeps, BeginTransientKeeps
  <2>2. CASE HoldChallenge(u) \/ EnterPin(u) \/ FinishPairing(u) \/ ClosePairing(u)
    BY <2>2, HoldChallengeKeeps, IdleKeeps, FinishPairingKeeps
  <2>3. CASE SendIdentity(u) \/ TakeCredentials(u) \/ ProveIdentity(u) \/ CompleteVerify(u)
    BY <2>3, SendIdentityKeeps, TakeCredentialsKeeps, ProveIdentityKeeps, CompleteVerifyKeeps
  <2>4. CASE ContinueTransient(u) \/ CompleteTransient(u)
    BY <2>4, ContinueTransientKeeps, CompleteTransientKeeps
  <2>5. CASE Refused(u) \/ GivesUp(u)
    BY <2>5, FailsKeeps DEF Refused, GivesUp
  <2> QED BY <1>1, <2>1, <2>2, <2>3, <2>4, <2>5
<1>2. ASSUME NEW n \in Runs, wire[n] # Missing, DeviceHandles(wire[n]) PROVE PairingInv'
  BY <1>2, DeviceKeeps
<1>3. ASSUME NEW d \in Devices, DropsPairings(d) PROVE PairingInv'
  BY <1>3, DropsPairingsKeeps
<1>4. CASE UNCHANGED pairingVars
  <2>1. UNCHANGED <<handlers, lastRun, wire, answers, accessories, transport, verified, credentials>>
    BY <1>4 DEF pairingVars
  <2>2. HandlersInv' /\ WireInv'
    BY <2>1 DEF PairingInv, HandlersInv, WireInv, Runs
  <2>3. StepsInv' /\ VerifiedInv' /\ StoredAreProven' /\ DevicesInv'
    BY <2>1 DEF PairingInv, StepsInv, VerifiedInv, StoredAreProven, DevicesInv
  <2> QED BY <2>1, <2>2, <2>3 DEF PairingInv
<1> QED BY <1>1, <1>2, <1>3, <1>4 DEF PairingNext

\* pairing.rs:24: what is stored was verified, and a run that was verified shares its key with the
\* device its credentials name, whatever other users do and whatever the device handles late.
THEOREM CredentialsAreProven == PairingSpec => []StoredAreProven
<1>1. PairingInv => StoredAreProven
  BY DEF PairingInv
<1> QED BY <1>1, PairingStarts, PairingSteps, PTL DEF PairingSpec

\* A PIN is one that a device may show.
PinsEntered == \A u \in Controllers : handlers[u].pin \in Pins \cup {Missing}

\* Only the user sets the PIN.
LEMMA PinsStay == PairingInv /\ PinsEntered /\ [PairingNext]_pairingVars => PinsEntered'
<1> SUFFICES ASSUME PairingInv, PinsEntered, [PairingNext]_pairingVars PROVE PinsEntered'
  OBVIOUS
<1>1. DOMAIN handlers = Controllers
      /\ \A u \in Controllers : DOMAIN handlers[u] = {"step", "run", "device", "procedure", "pin", "key", "creds",
                                                      "has_paired"}
  BY DEF PairingInv, HandlersInv, HandlerShape
<1>2. CASE UNCHANGED handlers
  BY <1>2 DEF PinsEntered
<1>3. ASSUME NEW u \in Controllers, NEW h, h.pin = handlers[u].pin, handlers' = [handlers EXCEPT ![u] = h]
      PROVE  PinsEntered'
  BY <1>1, <1>3 DEF PinsEntered
<1>4. ASSUME NEW u \in Controllers, EnterPin(u) PROVE PinsEntered'
  BY <1>1, <1>4 DEF EnterPin, PinsEntered
<1>5. ASSUME NEW u \in Controllers, NEW h, NEW kind, NEW state, NEW data, SendStep(u, h, kind, state, data),
             h.pin = handlers[u].pin
      PROVE  PinsEntered'
  BY <1>3, <1>5 DEF SendStep
<1>6. ASSUME NEW u \in Controllers, NEW d \in Devices, BeginPairing(u, d) \/ BeginTransient(u, d) \/ VerifyStored(u, d)
      PROVE  PinsEntered'
  <2>1. \A step : /\ Begun(u, d, step).pin = handlers[u].pin
                  /\ [Begun(u, d, step) EXCEPT !.creds = credentials[u]].pin = handlers[u].pin
    BY <1>1 DEF Begun
  <2> QED BY <1>5, <1>6, <2>1 DEF BeginPairing, BeginTransient, VerifyStored
<1>7. ASSUME NEW u \in Controllers
      PROVE  /\ AtRest(u).pin = handlers[u].pin
             /\ \A x, y : [AtRest(u) EXCEPT !.procedure = x, !.has_paired = y].pin = handlers[u].pin
             /\ \A y : [AtRest(u) EXCEPT !.has_paired = y].pin = handlers[u].pin
             /\ \A x : [handlers[u] EXCEPT !.procedure = x].pin = handlers[u].pin
  BY <1>1 DEF AtRest
<1>8. ASSUME NEW u \in Controllers, HoldChallenge(u) \/ ClosePairing(u) PROVE PinsEntered'
  <2>1. CASE HoldChallenge(u)
    <3> DEFINE x == [run |-> handlers[u].run, device |-> handlers[u].device]
               h == [AtRest(u) EXCEPT !.procedure = x, !.has_paired = FALSE]
    <3>1. handlers' = [handlers EXCEPT ![u] = h]
      BY <2>1 DEF HoldChallenge
    <3>2. h.pin = handlers[u].pin
      BY <1>7
    <3> HIDE DEF h
    <3> QED BY <1>3, <3>1, <3>2
  <2>2. CASE ClosePairing(u)
    <3> DEFINE h == [handlers[u] EXCEPT !.procedure = Missing]
    <3>1. handlers' = [handlers EXCEPT ![u] = h]
      BY <2>2 DEF ClosePairing
    <3>2. h.pin = handlers[u].pin
      BY <1>7
    <3> HIDE DEF h
    <3> QED BY <1>3, <3>1, <3>2
  <2> QED BY <1>8, <2>1, <2>2
<1>9. ASSUME NEW u \in Controllers, Fails(u) \/ CompleteTransient(u) PROVE PinsEntered'
  BY <1>3, <1>7, <1>9 DEF Fails, CompleteTransient
<1>10. ASSUME NEW u \in Controllers, CompleteVerify(u) PROVE PinsEntered'
  <2> DEFINE b == handlers[u].has_paired
             h == [AtRest(u) EXCEPT !.has_paired = @ \/ handlers[u].creds.client_id = handlers[u].run]
  <2>1. handlers' = [handlers EXCEPT ![u] = h]
    BY <1>10 DEF CompleteVerify
  <2>2. h.pin = handlers[u].pin
    BY <1>1, <1>7 DEF AtRest
  <2> HIDE DEF h
  <2> QED BY <1>3, <2>1, <2>2
<1>11. ASSUME NEW u \in Controllers,
              FinishPairing(u) \/ SendIdentity(u) \/ TakeCredentials(u) \/ ProveIdentity(u) \/ ContinueTransient(u)
       PROVE  PinsEntered'
  <2> DEFINE g == handlers[u]
  <2>1. PICK h, kind, state, data : SendStep(u, h, kind, state, data) /\ h.pin = g.pin
    <3>1. /\ \A p, r, d, k : [g EXCEPT !.procedure = p, !.step = "M4", !.run = r, !.device = d, !.key = k].pin = g.pin
          /\ [g EXCEPT !.step = "M6"].pin = g.pin
          /\ \A k, c : [g EXCEPT !.step = "verify M2", !.key = k, !.creds = c].pin = g.pin
          /\ \A k, s : [g EXCEPT !.step = s, !.key = k].pin = g.pin
      BY <1>1
    <3>2. CASE FinishPairing(u)
      <4> DEFINE p == g.procedure
                 key == SrpKey(g.pin, p.run, answers[p.run].data)
                 h == [g EXCEPT !.procedure = Missing, !.step = "M4", !.run = p.run, !.device = p.device, !.key = key]
      <4>1. SendStep(u, h, "setup", 3, [public_key |-> p.run, proof |-> key])
        BY <3>2 DEF FinishPairing
      <4>2. h.pin = g.pin
        BY <1>1
      <4> QED BY <4>1, <4>2
    <3>3. CASE SendIdentity(u)
      BY <3>1, <3>3 DEF SendIdentity
    <3>4. CASE TakeCredentials(u)
      <4> DEFINE creds == [ltpk |-> Answer(u).public_key, atv_id |-> Answer(u).identifier, ltsk |-> g.run,
                           client_id |-> g.run]
                 h == [g EXCEPT !.step = "verify M2", !.key = Missing, !.creds = creds]
      <4>1. SendStep(u, h, "verify", 1, g.run)
        BY <3>4 DEF TakeCredentials
      <4>2. h.pin = g.pin
        BY <1>1
      <4> QED BY <4>1, <4>2
    <3>5. CASE ProveIdentity(u)
      BY ZenonT(60), <3>1, <3>5 DEF ProveIdentity
    <3>6. CASE ContinueTransient(u)
      BY <3>1, <3>6 DEF ContinueTransient
    <3> QED BY <1>11, <3>2, <3>3, <3>4, <3>5, <3>6
  <2> QED BY <1>5, <2>1
<1> QED BY <1>2, <1>4, <1>6, <1>8, <1>9, <1>10, <1>11
    DEF PairingNext, pairingVars, Refused, GivesUp, DeviceHandles, DropsPairings

\* pairing.rs: a run has a number that was given out, what is on the wire is of a run that began, and a
\* PIN that was entered is one that a device may show.
THEOREM PairingTypes == PairingSpec => []PairingTypeOK
<1>1. PairingInit => PinsEntered
  BY DEF PairingInit, PinsEntered
<1>2. PairingInv /\ PinsEntered => PairingTypeOK
  BY DEF PairingInv, PinsEntered, HandlersInv, HandlerShape, WireInv, PairingTypeOK
<1> QED BY <1>1, <1>2, PairingStarts, PairingSteps, PinsStay, PTL DEF PairingSpec
=============================================================================
