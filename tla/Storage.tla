------------------------------ MODULE Storage ------------------------------
(* The settings storage (pyatv-core: storage/core.rs, storage/file.rs).     *)
(* Threads read and change the list of records under one lock, some of them *)
(* in two holds of it; others write the list to the file: dump it, compare  *)
(* it with what was saved last, write a sibling file, sync it, rename it    *)
(* into place, remember the dump. The process or the machine may crash      *)
(* between any two of these steps.                                          *)
EXTENDS Naturals, Sequences, FiniteSets

CONSTANTS
    Identifiers,   \* what devices are known by, over all protocols
    Paired,        \* the identifiers a pairing files its credentials under
    Configs,       \* the configurations threads bring: the identifiers their services have,
                   \* those known for services that now have none, and credentials
    Credentials,   \* credentials a pairing stores
    NoCredentials,
    Editors, Savers  \* the threads

ASSUME StorageAssumption ==
    /\ NoCredentials \notin Credentials
    /\ Paired \subseteq Identifiers
    /\ \A c \in Configs : /\ c.ids # {} /\ c.ids \cup c.cleared \subseteq Identifiers
                          /\ c.ids \cap c.cleared = {}
                          /\ c.credentials \in Credentials \cup {NoCredentials}
    /\ Editors \cap Savers = {} /\ IsFiniteSet(Savers)

VARIABLES
    settings,   \* Inner.settings
    saved,      \* Inner.saved: <<the list as it was dumped>>, or <<>> if nothing was saved
    edits,      \* the record a user holds between the two locks of an operation
    common,     \* history: the identifiers every lookup and pairing so far has had
    saves,      \* how far each saver is, the dump it writes and the file it has open
    conf, tmp,  \* the inode each of the two names stands for, 0 if there is none
    committed,  \* the inode conf stands for on the disk, where a rename may come late
    files,      \* what each inode holds
    synced      \* the inodes whose contents are on the disk

coreVars == <<settings, saved, edits, common>>
diskVars == <<conf, tmp, committed, files, synced>>
storageVars == <<coreVars, saves, diskVars>>

Records == [ids : SUBSET Identifiers, credentials : Credentials \cup {NoCredentials}]

(* Contents are written in two pieces; Torn stands for a mix of two dumps.  *)
File(dump, pieces) == [dump |-> dump, pieces |-> pieces]
Complete == 2
Empty == File(<<>>, 0)
Torn == File(<<>>, 1)

Inodes == 1..(Cardinality(Savers) + 2)
NoEdit == [at |-> "none", record |-> [ids |-> {}, credentials |-> NoCredentials]]
NoSave == [at |-> "none", dump |-> <<>>, inode |-> 0]

StorageInit ==
    /\ settings = <<>> /\ saved = <<>>
    /\ edits = [u \in Editors |-> NoEdit]
    /\ common = Identifiers
    /\ saves = [s \in Savers |-> NoSave]
    /\ conf = 0 /\ tmp = 0 /\ committed = 0
    /\ files = [i \in Inodes |-> Empty]
    /\ synced = {}
-----------------------------------------------------------------------------
(* StorageCore: a record matches if it shares an identifier; the first one  *)
(* that does is the device's.                                               *)

Matches(ids) == {k \in DOMAIN settings : settings[k].ids \cap ids # {}}
Found(ids) == CHOOSE k \in Matches(ids) : \A l \in Matches(ids) : k <= l

(* A service without an identifier clears the stored one, a service without *)
(* credentials leaves them alone.                                           *)
Updated(record, c) ==
    [ids |-> (record.ids \ c.cleared) \cup c.ids,
     credentials |-> IF c.credentials = NoCredentials THEN record.credentials
                     ELSE c.credentials]

Fresh(c) == Updated(NoEdit.record, c)

Edit(u, at, record) == edits' = [edits EXCEPT ![u] = [at |-> at, record |-> record]]

(* get_settings finds or creates under one hold of the lock. It is also the *)
(* first half of update_settings, which updates what it got and goes on to  *)
(* Store.                                                                   *)
Get(u, c, then) ==
    /\ edits[u] = NoEdit
    /\ IF Matches(c.ids) # {}
       THEN LET existing == settings[Found(c.ids)]
            IN  /\ Edit(u, then, IF then = "store" THEN Updated(existing, c) ELSE existing)
                /\ UNCHANGED settings
       ELSE /\ settings' = Append(settings, Fresh(c))
            /\ Edit(u, then, Fresh(c))
    /\ common' = common \cap c.ids
    /\ UNCHANGED <<saved, saves, diskVars>>

(* store_credentials, first half: find_settings, or a new record.           *)
Pairs(u, id, credentials) ==
    /\ edits[u] = NoEdit
    /\ Edit(u, "store",
            [ids |-> IF Matches({id}) = {} THEN {id} ELSE settings[Found({id})].ids,
             credentials |-> credentials])
    /\ common' = common \cap {id}
    /\ UNCHANGED <<settings, saved, saves, diskVars>>

(* Mutant: a record is replaced only by one with the same identifiers.      *)
StoreExact(record) ==
    settings' = IF \A k \in DOMAIN settings : settings[k].ids # record.ids
                THEN Append(settings, record)
                ELSE [settings EXCEPT ![Found(record.ids)] = record]

(* set_settings: in the place of the first record that matches.             *)
StoreRecord(record) ==
    settings' = IF Matches(record.ids) = {} THEN Append(settings, record)
                ELSE [settings EXCEPT ![Found(record.ids)] = record]

Store(u) ==
    /\ edits[u].at = "store"
    /\ StoreRecord(edits[u].record)
    /\ edits' = [edits EXCEPT ![u] = NoEdit]
    /\ UNCHANGED <<saved, common, saves, diskVars>>

(* retain: the list without a record, in order.                             *)
Retain(list, record) ==
    LET kept == {k \in DOMAIN list : list[k] # record}
    IN  [n \in 1..Cardinality(kept) |->
            list[CHOOSE k \in kept : Cardinality({j \in kept : j <= k}) = n]]

(* remove_settings takes a record the caller has read, and drops its equals.*)
RemoveRecord(u) ==
    /\ edits[u].at = "read"
    /\ settings' = Retain(settings, edits[u].record)
    /\ edits' = [edits EXCEPT ![u] = NoEdit]
    /\ UNCHANGED <<saved, common, saves, diskVars>>

Forgets(u) ==
    /\ edits[u].at = "read"
    /\ edits' = [edits EXCEPT ![u] = NoEdit]
    /\ UNCHANGED <<settings, saved, common, saves, diskVars>>

Edits(u) ==
    \/ \E c \in Configs, then \in {"read", "store"} : Get(u, c, then)
    \/ \E id \in Paired, credentials \in Credentials : Pairs(u, id, credentials)
    \/ Store(u) \/ RemoveRecord(u) \/ Forgets(u)
-----------------------------------------------------------------------------
(* FileStorage::save and write_atomically.                                  *)

At(s, at) == saves' = [saves EXCEPT ![s].at = at]
Ends(s) == saves' = [saves EXCEPT ![s] = NoSave]

(* Mutant: the dump is remembered before it is written.                     *)
SaveMarked(s) ==
    /\ saves[s] = NoSave
    /\ saved # <<settings>>
    /\ saves' = [saves EXCEPT ![s] = [at |-> "create", dump |-> settings, inode |-> 0]]
    /\ saved' = <<settings>>
    /\ UNCHANGED <<settings, edits, common, diskVars>>

(* dump and has_changed.                                                    *)
Save(s) ==
    /\ saves[s] = NoSave
    /\ saved # <<settings>>
    /\ saves' = [saves EXCEPT ![s] = [at |-> "create", dump |-> settings, inode |-> 0]]
    /\ UNCHANGED <<coreVars, diskVars>>

(* File::create: a file that is there already is opened and truncated.      *)
CreateTmp(s) ==
    LET inode == IF tmp # 0 THEN tmp
                 ELSE CHOOSE i \in Inodes : i \notin {conf, committed} /\ \A t \in Savers : i # saves[t].inode
    IN  /\ saves[s].at = "create"
        /\ tmp' = inode
        /\ files' = [files EXCEPT ![inode] = Empty]
        /\ synced' = synced \ {inode}
        /\ saves' = [saves EXCEPT ![s].at = "write", ![s].inode = inode]
        /\ UNCHANGED <<coreVars, conf, committed>>

(* One write_all: a saver writes at its own offset, whoever else writes.    *)
Written(file, dump, piece) ==
    IF file.pieces = piece - 1 /\ (piece = 1 \/ file.dump = dump) THEN File(dump, piece)
    ELSE IF file.dump = dump THEN file ELSE Torn

WritePiece(s, from, to, piece) ==
    LET inode == saves[s].inode
    IN  /\ saves[s].at = from
        /\ files' = [files EXCEPT ![inode] = Written(@, saves[s].dump, piece)]
        /\ synced' = synced \ {inode}
        /\ At(s, to)
        /\ UNCHANGED <<coreVars, conf, committed, tmp>>

Write(s) == WritePiece(s, "write", "finish", 1) \/ WritePiece(s, "finish", "sync", 2)

(* Mutant: the contents are left to the page cache.                         *)
SyncNothing(s) ==
    /\ saves[s].at = "sync"
    /\ At(s, "rename")
    /\ UNCHANGED <<coreVars, diskVars>>

Sync(s) ==
    /\ saves[s].at = "sync"
    /\ synced' = synced \cup {saves[s].inode}
    /\ At(s, "rename")
    /\ UNCHANGED <<coreVars, conf, committed, tmp, files>>

(* A write, or the rename, fails: the sibling is removed.                   *)
WriteFails(s) ==
    /\ saves[s].at \in {"create", "write", "finish", "sync", "rename"}
    /\ tmp' = IF saves[s].at = "create" THEN tmp ELSE 0
    /\ Ends(s)
    /\ UNCHANGED <<coreVars, conf, committed, files, synced>>

(* rename moves whatever file has the sibling's name; without one it fails. *)
Rename(s) ==
    /\ saves[s].at = "rename"
    /\ tmp # 0
    /\ conf' = tmp /\ tmp' = 0
    /\ At(s, "mark")
    /\ UNCHANGED <<coreVars, committed, files, synced>>

(* mark_saved, with the dump that was written.                              *)
MarkSaved(s) ==
    /\ saves[s].at = "mark"
    /\ saved' = <<saves[s].dump>>
    /\ Ends(s)
    /\ UNCHANGED <<settings, edits, common, diskVars>>

SaveStep(s) ==
    Save(s) \/ CreateTmp(s) \/ Write(s) \/ Sync(s) \/ WriteFails(s) \/ Rename(s) \/ MarkSaved(s)

(* The disk catches up with the rename.                                     *)
Commit ==
    /\ committed # conf
    /\ committed' = conf
    /\ UNCHANGED <<coreVars, saves, conf, tmp, files, synced>>

(* The process ends, or the machine with it: the rename may be undone, and  *)
(* what was not synced may be there in part. A new process loads the file.  *)
Crash ==
    /\ \E onDisk \in [Inodes \ synced -> 0..Complete] :
          /\ \A i \in DOMAIN onDisk : onDisk[i] <= files[i].pieces
          /\ files' = [i \in Inodes |-> IF i \in synced THEN files[i]
                                        ELSE File(files[i].dump, onDisk[i])]
    /\ synced' = Inodes
    /\ conf' \in {conf, committed} /\ committed' = conf'
    /\ tmp' = IF conf' = conf THEN tmp ELSE conf
    /\ settings' = IF conf' = 0 THEN <<>> ELSE files'[conf'].dump
    /\ saved' = IF conf' = 0 THEN <<>> ELSE <<settings'>>
    /\ edits' = [u \in Editors |-> NoEdit]
    /\ UNCHANGED common
    /\ saves' = [s \in Savers |-> NoSave]

StorageNext ==
    \/ \E u \in Editors : Edits(u)
    \/ \E s \in Savers : SaveStep(s)
    \/ Commit
    \/ Crash

StorageSpec == StorageInit /\ [][StorageNext]_storageVars
-----------------------------------------------------------------------------
(* The values the variables take.                                           *)
StorageTypeOK ==
    /\ \A k \in DOMAIN settings : settings[k] \in Records
    /\ \A u \in Editors : edits[u].at \in {"none", "read", "store"} /\ edits[u].record \in Records
    /\ \A s \in Savers : saves[s].inode \in Inodes \cup {0}
    /\ {conf, tmp, committed} \subseteq Inodes \cup {0}
    /\ files \in [Inodes -> [dump : Seq(Records), pieces : 0..Complete]]
    /\ synced \subseteq Inodes

(* file.rs:126: "Renaming a complete sibling into place is atomic". Under   *)
(* the name of the settings file there is, at every moment and after every  *)
(* crash, a complete dump or nothing; a reader never sees part of one.      *)
FileComplete ==
    \A i \in {conf, committed} \ {0} : i \in synced /\ files[i].pieces = Complete

(* core.rs:132: save() does nothing if the dump equals the remembered one.  *)
(* So what is remembered is what the file holds, through writes that fail   *)
(* at any step, crashes and changes made while a save is under way: no      *)
(* change is skipped by the next save.                                      *)
MarkerTruthful ==
    (\A s \in Savers : saves[s].at # "mark") =>
        saved = IF conf = 0 THEN <<>> ELSE <<files[conf].dump>>

(* core.rs:149: threads that look up, update, pair and remove one device    *)
(* share one record of it, also when its identifiers come and go, as long   *)
(* as every lookup and pairing has one identifier in common with all others.*)
(* A device seen under separate identifiers gets a record for each.         *)
OneRecordPerDevice ==
    common # {} =>
        \A k, l \in DOMAIN settings : settings[k].ids \cap settings[l].ids # {} => k = l
=============================================================================
