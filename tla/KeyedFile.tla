----------------------------- MODULE KeyedFile -----------------------------
(***************************************************************************)
(* A data file with an index, used by several processes: DX programs       *)
(* (dbcdio.c) and connections of the FS server (fsfile.c).                 *)
(*                                                                         *)
(* Nobody but these processes keeps index and records together: a write, a *)
(* delete and the search of a read run under the lock of the data file     *)
(* (fioflck), a record lock keeps a record for the program that reads it.  *)
(* The index is Index (unique keys, fixed-length records, whose places are *)
(* used again), the locks are those of FileLock.                           *)
(*                                                                         *)
(* The locks are only asked for, not enforced; the programs are those that *)
(* update or delete a record only while they have it locked, and unlock    *)
(* what they had before they lock another (LOCKSINGLE).                    *)
(***************************************************************************)
EXTENDS Integers, Sequences, FiniteSetsExt

CONSTANTS
  Proc,      \* processes
  Server,    \* those that are connections of the server
  Keys,      \* the keys are 1 .. Keys
  MaxPlace,  \* bound: places for records in the file
  MaxFaults  \* bound: how many writes fail and processes die

ASSUME KeyedFileAssumption ==
  /\ Server \subseteq Proc /\ "no one" \notin Proc
  /\ {Keys, MaxPlace, MaxFaults} \subseteq Nat

VARIABLES
  keys,   \* the index: the place of each key, 0 if it has none
  free,   \* the places of deleted records, the next one first
  data,   \* the records, or Deleted
  flock,  \* who has the lock of the data file
  rlock,  \* who has the lock of the record at a place
  call,   \* call[p]: where p is in its call, with its locals
  have,   \* have[p]: the record p has read or written, with its place
  cur,    \* cur[p]: the position in the index, End behind the last key
  faults  \* writes and deletes that failed and processes that died

kvars == <<keys, free, data, flock, rlock, call, have, cur, faults>>
locks == <<flock, rlock>>
files == <<keys, free, data>>

Key == 1 .. Keys
End == Keys + 1
Place == 1 .. MaxPlace
NoOne == "no one"
Deleted == [key |-> 0, version |-> 0]
Record(k) == [key |-> k, version |-> 0]
\* An update changes the version; two are enough to tell one that is lost.
Newer(rec) == [rec EXCEPT !.version = 1 - @]
Nothing == [place |-> 0, rec |-> Deleted, locked |-> FALSE]
Idle == [at |-> "idle", by |-> "", key |-> 0, place |-> 0, lock |-> FALSE, tried |-> 0]

Init ==
  /\ keys = [k \in Key |-> 0] /\ free = <<>> /\ data = <<>>
  /\ flock = NoOne /\ rlock = [q \in Place |-> NoOne]
  /\ call = [p \in Proc |-> Idle]
  /\ have = [p \in Proc |-> Nothing]
  /\ cur = [p \in Proc |-> 0]
  /\ faults = 0

Calls(p, c) == call' = [call EXCEPT ![p] = c]
Goes(p, at) == call' = [call EXCEPT ![p].at = at]
Returns(p) == Calls(p, Idle)
Has(p, h) == have' = [have EXCEPT ![p] = h]
Stands(p, c) == cur' = [cur EXCEPT ![p] = c]
IsIdle(p) == call[p].at = "idle"
IsAt(p, at) == call[p].at = at

Fioflck(p) == flock = NoOne /\ flock' = p
Fiofulk(p) == flock' = IF flock = p THEN NoOne ELSE flock
Unlocks(p, Q) == rlock' = [q \in Place |-> IF q \in Q /\ rlock[q] = p THEN NoOne ELSE rlock[q]]
NoFault == UNCHANGED faults
Fault == faults < MaxFaults /\ faults' = faults + 1

Exists(q) == q \in DOMAIN data /\ data[q] # Deleted
Indexed == {k \in Key : keys[k] # 0}

(***************************************************************************)
(* Reads by key.                                                           *)
(***************************************************************************)
\* xionext and xioprev from position c.
NextKey(c) ==
  LET S == {k \in Indexed : k > c}
  IN IF S # {} THEN Min(S) ELSE IF Indexed = {} /\ c # 0 /\ c # End THEN 0 ELSE End
PrevKey(c) == Max({0} \cup {k \in Indexed : k < c})
Step(by, c) == IF by = "next" THEN NextKey(c) ELSE PrevKey(c)
Back(by, c) == IF by = "next" THEN PrevKey(c) ELSE NextKey(c)

\* Mutant of Held: the lock is given back before the record is read.
HeldNever(p, lock) == NoOne
\* The file lock after a search that found something: a read that also locks
\* the record does not keep it, for it may have to wait for the record.
Held(p, lock) == IF lock THEN NoOne ELSE p

\* The search of a read: c.key is what it came to.
Searched(p, c) ==
  /\ flock = NoOne
  /\ Stands(p, c.key)
  /\ IF c.key \in Indexed
     THEN /\ Calls(p, [c EXCEPT !.at = IF c.lock THEN "lock" ELSE "get", !.place = keys[c.key]])
          /\ flock' = Held(p, c.lock)
     ELSE Returns(p) /\ UNCHANGED flock
  /\ UNCHANGED files /\ NoFault

Reads(p, by, k, lock) ==
  /\ IsIdle(p)
  /\ Searched(p, [Idle EXCEPT !.by = by, !.key = k, !.lock = lock])
  /\ Has(p, Nothing)
  /\ IF lock THEN Unlocks(p, Place) ELSE UNCHANGED rlock

ReadKey(p, k, lock) == Reads(p, "key", k, lock)
ReadNext(p, by, lock) == Reads(p, by, Step(by, cur[p]), lock)

\* Mutant of LockRefused: the record is read all the same.
LockRefusedReads(p) ==
  /\ IsAt(p, "lock")
  /\ rlock[call[p].place] \notin {p, NoOne}
  /\ Goes(p, "get")
  /\ UNCHANGED <<files, locks, have, cur>> /\ NoFault
\* The record is locked by another, and the call does not wait any longer.
LockRefused(p) ==
  /\ IsAt(p, "lock")
  /\ rlock[call[p].place] \notin {p, NoOne}
  /\ Returns(p)
  /\ UNCHANGED <<files, locks, have, cur>> /\ NoFault

LockRecord(p) ==
  LET q == call[p].place
  IN /\ IsAt(p, "lock")
     /\ rlock[q] \in {p, NoOne}
     /\ rlock' = [rlock EXCEPT ![q] = p]
     /\ Goes(p, "get")
     /\ UNCHANGED <<files, flock, have, cur>> /\ NoFault

GetRecord(p) ==
  LET c == call[p]
  IN /\ IsAt(p, "get") /\ Exists(c.place)
     /\ Has(p, [place |-> c.place, rec |-> data[c.place], locked |-> c.lock])
     /\ Returns(p) /\ Fiofulk(p)
     /\ UNCHANGED <<files, rlock, cur>> /\ NoFault

\* Mutant of RecordGone: the search begins again with the record locked.
RecordGoneLocked(p) ==
  LET c == call[p]
  IN /\ IsAt(p, "get") /\ ~Exists(c.place)
     /\ IF c.lock /\ p \in Server /\ c.place \in DOMAIN data \ {c.tried}
        THEN Calls(p, [c EXCEPT !.at = "again", !.tried = c.place])
        ELSE Returns(p)
     /\ Fiofulk(p)
     /\ UNCHANGED <<files, rlock, have, cur>> /\ NoFault
\* The record was deleted between the search and the lock: a server looks once
\* more, and for ever while it finds another record; DX answers an error, and so
\* does a server if the place is beyond the end of the file.
RecordGone(p) ==
  LET c == call[p]
  IN /\ IsAt(p, "get") /\ ~Exists(c.place)
     /\ IF c.lock /\ p \in Server /\ c.place \in DOMAIN data \ {c.tried}
        THEN Calls(p, [c EXCEPT !.at = "again", !.tried = c.place])
        ELSE Returns(p)
     /\ Fiofulk(p) /\ Unlocks(p, IF c.lock THEN {c.place} ELSE {})
     /\ UNCHANGED <<files, have, cur>> /\ NoFault

ReadAgain(p) ==
  LET c == call[p]
      key == IF c.by = "key" THEN c.key ELSE Step(c.by, Back(c.by, cur[p]))
  IN /\ IsAt(p, "again")
     /\ Searched(p, [c EXCEPT !.key = key])
     /\ UNCHANGED <<rlock, have>>

(***************************************************************************)
(* A write by key: a place, the key, the record.                           *)
(***************************************************************************)
WriteKey(p, k) ==
  /\ IsIdle(p) /\ Fioflck(p)
  /\ Has(p, Nothing)
  /\ \/ /\ free # <<>>
        /\ Calls(p, [Idle EXCEPT !.at = "insert", !.key = k, !.place = Head(free)])
        /\ free' = Tail(free)
     \/ /\ free = <<>> /\ Len(data) < MaxPlace
        /\ Calls(p, [Idle EXCEPT !.at = "insert", !.key = k, !.place = Len(data) + 1])
        /\ UNCHANGED free
  /\ UNCHANGED <<keys, data, rlock, cur>> /\ NoFault

InsertKey(p) ==
  LET c == call[p]
  IN /\ IsAt(p, "insert") /\ c.key \notin Indexed
     /\ keys' = [keys EXCEPT ![c.key] = c.place]
     /\ Stands(p, c.key) /\ Goes(p, "put")
     /\ UNCHANGED <<free, data, locks, have>> /\ NoFault

\* Mutant of InsertRefused: the record is written all the same.
InsertRefusedPuts(p) ==
  /\ IsAt(p, "insert") /\ call[p].key \in Indexed
  /\ Goes(p, "put")
  /\ UNCHANGED <<files, locks, have, cur>> /\ NoFault
\* The key is there already.  The place is not given back.  The position
\* becomes one of its kind by where the new key would have been.
InsertRefused(p) ==
  /\ IsAt(p, "insert") /\ call[p].key \in Indexed
  /\ \E c \in {cur[p], 0, End} : Stands(p, c)
  /\ Returns(p) /\ Fiofulk(p)
  /\ UNCHANGED <<files, rlock, have>> /\ NoFault

PutRecord(p) ==
  LET c == call[p]
      rec == Record(c.key)
  IN /\ IsAt(p, "put")
     /\ data' = IF c.place \in DOMAIN data THEN [data EXCEPT ![c.place] = rec]
                                           ELSE Append(data, rec)
     /\ Has(p, [place |-> c.place, rec |-> rec, locked |-> FALSE])
     /\ Returns(p) /\ Fiofulk(p)
     /\ UNCHANGED <<keys, free, rlock, cur>> /\ NoFault

\* An error of the index, or of the data file, which leaves the key.
WriteFails(p) ==
  /\ IsAt(p, "insert") \/ IsAt(p, "put")
  /\ Returns(p) /\ Fiofulk(p)
  /\ UNCHANGED <<files, rlock, have, cur>> /\ Fault

(***************************************************************************)
(* An update of the record that was read, without the file lock.  In DX it *)
(* ends the automatic lock.                                                *)
(***************************************************************************)
MayChange(p) == IsIdle(p) /\ have[p].locked

Update(p) ==
  LET h == have[p]
  IN /\ MayChange(p)
     /\ data' = [data EXCEPT ![h.place] = Newer(h.rec)]
     /\ Has(p, [h EXCEPT !.rec = Newer(@), !.locked = p \in Server])
     /\ Unlocks(p, IF p \in Server THEN {} ELSE {h.place})
     /\ UNCHANGED <<keys, free, flock, call, cur>> /\ NoFault

Unlock(p) ==
  /\ MayChange(p)
  /\ Has(p, [have[p] EXCEPT !.locked = FALSE])
  /\ Unlocks(p, Place)
  /\ UNCHANGED <<files, flock, call, cur>> /\ NoFault

(***************************************************************************)
(* A delete by key: the key, the record and its lock, the place.           *)
(***************************************************************************)
Delete(p) ==
  LET k == have[p].rec.key
  IN /\ MayChange(p)
     /\ flock = NoOne
     /\ Stands(p, k)
     /\ IF k \in Indexed
        THEN /\ keys' = [keys EXCEPT ![k] = 0]
             /\ Calls(p, [Idle EXCEPT !.at = "delete", !.key = k, !.place = keys[k]])
             /\ flock' = p
        ELSE UNCHANGED <<keys, call, flock>>
     /\ UNCHANGED <<free, data, rlock, have>> /\ NoFault

\* riodelete and riounlock; a record that was deleted before ends the call.
DeleteRecord(p) ==
  LET q == call[p].place
  IN /\ IsAt(p, "delete")
     /\ IF Exists(q) THEN /\ data' = [data EXCEPT ![q] = Deleted]
                          /\ Goes(p, "give") /\ UNCHANGED flock
                     ELSE Returns(p) /\ Fiofulk(p) /\ UNCHANGED data
     /\ Has(p, Nothing) /\ Unlocks(p, {q})
     /\ UNCHANGED <<keys, free, cur>> /\ NoFault

DeleteFails(p) ==
  /\ IsAt(p, "delete")
  /\ Returns(p) /\ Fiofulk(p)
  /\ Has(p, Nothing) /\ Unlocks(p, {call[p].place})
  /\ UNCHANGED <<files, cur>> /\ Fault

GivePlace(p) ==
  /\ IsAt(p, "give")
  /\ free' = Append(free, call[p].place)
  /\ Returns(p) /\ Fiofulk(p)
  /\ UNCHANGED <<keys, data, rlock, have, cur>> /\ NoFault

\* A process dies, and another takes its place.
Crash(p) ==
  /\ ~IsIdle(p) \/ have[p].locked
  /\ Returns(p) /\ Fiofulk(p) /\ Unlocks(p, Place)
  /\ Has(p, Nothing) /\ Stands(p, 0)
  /\ UNCHANGED files /\ Fault

Next == \E p \in Proc :
  \/ \E lock \in BOOLEAN :
       \/ \E k \in Key : ReadKey(p, k, lock)
       \/ \E by \in {"next", "prev"} : ReadNext(p, by, lock)
  \/ LockRecord(p) \/ LockRefused(p) \/ GetRecord(p) \/ RecordGone(p) \/ ReadAgain(p)
  \/ \E k \in Key : WriteKey(p, k)
  \/ InsertKey(p) \/ InsertRefused(p) \/ PutRecord(p) \/ WriteFails(p)
  \/ Update(p) \/ Unlock(p)
  \/ Delete(p) \/ DeleteRecord(p) \/ DeleteFails(p) \/ GivePlace(p)
  \/ Crash(p)

Spec == Init /\ [][Next]_kvars

-----------------------------------------------------------------------------
\* Until a call fails, and while none changes the file, every key is that of a
\* record and every record has its key, in whatever order processes wrote,
\* deleted, updated and used places again: the file lock spans the steps that
\* belong together, and no update comes too late (filewritekey 875-927,
\* filedelete 1055-1086, fileupdate 1029-1031).
KeysHaveRecords == faults = 0 /\ flock = NoOne =>
  /\ \A k \in Indexed : Exists(keys[k]) /\ data[keys[k]].key = k
  /\ \A q \in DOMAIN data : Exists(q) => keys[data[q].key] = q

\* No call leaves a lock behind, by whatever way it returns and whatever failed
\* or died before: the file lock is that of a call, and a process never has the
\* locks of two records (filereadkey 493-507, filewritekey 930, filedelete 1108).
NoLockLeft == \A p \in Proc :
  /\ flock = p => ~IsIdle(p)
  /\ \A q, r \in Place : rlock[q] = p /\ rlock[r] = p => q = r

\* A read that was asked for a key answers the record of this key.  If it locks
\* the record that is so only while the key is still where it was found: the
\* file lock was given back for the wait, and the place may have the record of
\* another key since, which the call does not look at (filereadkey 463-497).
ReadsTheKey ==
  [][\A p \in Proc : faults = 0 /\ GetRecord(p) =>
       LET c == call[p]
       IN have'[p].rec.key = c.key \/ (c.lock /\ keys[c.key] # c.place)]_kvars

\* Until something fails no update overwrites a change that its program has not
\* seen: the record is read again once it is locked (readrec 661-671).
NoUpdateLost ==
  [][\A p \in Proc : faults = 0 /\ Update(p) => data[have[p].place] = have[p].rec]_kvars
=============================================================================
