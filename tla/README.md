# Verification of the DB/C DX and DB/C FS file layer

TLA+ modules, TLC configurations and TLAPS proofs about the C sources under
`src/`. Every definition is translated from the source; `PROJECT.json` ("map")
gives the lines each one stands for.

## 1. The system

DB/C DX is a compiler and runtime of a business language (`src/dx`), DB/C FS a
file and SQL server (`src/fs`). Both sit on one support library
(`src/common/support`) whose file layer lets many independent processes share
data files, with no server between them but the operating system.

| component | source | state | operations | what makes it correct |
|---|---|---|---|---|
| handle layer | `common/support/fio.c`, `fioaunx.c` | table of handles (`ftab`), one `htab` per open file (mode, open count, OS handle, cached position and size, lock flags, record lock list) | open, close, read, write, size, flush, truncate, rename, LRU close and reopen | a handle means the same file until it is closed; a temporary close is invisible; the cached position and size are those of the OS handle |
| locks | the same | lock flags, record lock list, kernel locks, semaphores | `fiolock`/`fiounlock` (filepi), `fioflck`/`fiofulk`, `fiolckpos`/`fioulkpos`, `fioalock` | the tables say what the kernel holds; writers exclude; list locks are all or nothing and cannot deadlock |
| exclusive open | `fioaopen`, `fioopen` | a lock byte per open | open modes SRO .. EOC | an exclusive open excludes every other open |
| libraries | `fiolibsrch`, `fiolibmod` | members inside one file | open, create, close member | members do not overlap |
| record files | `rio.c` | one buffer, positions, cached size, log | get, prev, put, parput, delete, setpos, weof, flush, lock | the buffered file behaves as the file |
| indexes | `xio.c` | B-tree file, current key, block cache | find, next, prev, insert, delete | the tree holds exactly the keys of the data file |
| associative indexes | `aio.c` | bit tables per extent | key, next, prev, insert, delete | no matching record is missed |
| memory | `base.c` | movable blocks | alloc, free, change, compact | blocks keep their content; pointers are reloaded after a move |
| timers, events, queues | `tim.c`, `evtunx.c`, `dx/runtime/que.c` | timer table, one alarm, event states, action flag, message queues | set, clear, wait, put, get | every timer fires or is stopped, no wake-up is lost |
| sort | `sio.c` | runs and merge files | put, get | output is a sorted permutation |
| sockets | `tcp.c` | | connect, send, receive | |
| DX verbs | `dx/runtime/dbcdio.c`, `dbciex.c` | file variables, `fpicnt` | open, read, write, insert, delete, filepi, unlock | a data file and its indexes are changed under one file lock |
| DX interpreter | `dbcctl.c`, `dbcldr.c`, `dbcmov.c`, ... | program modules, data area, return stack | verbs | |
| FS server | `fs/server/dbcfs.c`, `dbcfsrun.c`, `fsfile.c` | connections, file table | one child process per connection, file functions | a request of one connection never touches the files of another |
| SQL | `fs/server/fssql*.c`, `bmath.c` | plans, work sets | | |
| clients | `fs/client`, `common/support/fsfileio.c`, `jdbc`, `FS_File_*`, `SmartClient_Java` | | | |
| printing, screens, compiler, utilities | `prt*.c`, `vid*.c`, `gui*.c`, `dx/compiler`, `common/utils` | | | |
| vendored | image, zlib, openssl code | | | not part of the system's own logic |

How they interact: the verbs and the server call `rio`, `xio` and `aio`, which
call `fio`; `xio` and `aio` lock nothing, so index and data file are kept
together only because their callers hold the `fioflck` lock of the **data**
file around both. All sharing between processes goes through kernel locks
(`fcntl` bytes, System V semaphores with `SEMLOCK`), and the handle table of
each process is private. Inside a process the only concurrency on Unix is the
signal handler. The hard parts follow: interleavings of processes at
lock waits, locks that the kernel drops as a side effect (`close` drops every
`fcntl` lock of the process on that file), an OS handle that is closed and
reopened behind the caller's back, refused and timed-out locks halfway through
a list, processes that die, and buffers and cached positions that outlive the
call that filled them. `PROJECT.json` ("hazards") lists them by line.

## 2. Plan

Written so far, in this order:

1. `FileLock` with `LockManager` (what it promises), `Filepi` (the verb that
   uses it), `LockProofs`.
2. `RecordFormat`, `RecordFile` (records without a buffer, the abstract
   specification) and `RecordBuffer` (the buffer of `rio.c`, which implements it);
   `RecordFormatProofs` (lemmas), `RecordFileProofs`, `RecordBufferProofs`.
3. `FileAccess`: cached position and size, closes and reopens of the handle, I/O
   errors; `SupportProofs`, which also has the proofs of 4 and 7.
4. `FileOpen`: the exclusive-open protocol of `fioaopen`.
5. `IndexKeys`, `IndexTree`, `Index`: the B-tree of `xio.c`, with `KeyList`, the
   ordered list of keys it implements; `IndexTreeProofs` (inserts, and the lemmas),
   `IndexProofs` (deletes, searches, and the calls of programs).
6. `KeyedFile`: reads, writes, updates and deletes by key of `fsfile.c` and
   `dbcdio.c`, by several processes, on top of what 1, 2 and 5 promise;
   `KeyedFileProofs`.
7. `Events`: timers, event flags and the signal handler (`tim.c`, `evtunx.c`).

Left: library members (`fiolibsrch`, `fiolibmod`) against disjoint files; data
files with a buffer that several programs share (`RANDWRTLCK`); a keyed file
whose steps are those of the record and index modules instead of what they
promise.

## 3. Modules

### FileLock

One process table per process `p`: `ftab[p][n]` is the file of handle `n`,
`mode`, `hopen`, `lckflg` and `plist` are the fields of its `htab`s. `oslk`
and `sem` are the kernel. `call[p]` is the lock call a process waits in.

The unit of interleaving is the code between two waits. A call that may wait is
split into the call (the checks made before the kernel is asked, `FiolockCall`,
`FioflckCall`, `FiolckposCall`), the grant (`...Grant`: `fiotouch`, then
`fioalock` returns 0, then the tables are changed) and, for a list,
`FiolockReturn`. `Refused` is every other end of the wait: no wait allowed, the
time limit, `EDEADLK`, or a reopen in `fiotouch` that fails. Calls that never
wait are one action. `Crash` is the death of a process; the kernel then closes
its files, and `SEM_UNDO` gives its semaphores back. `Rollout` and `FlushFails`
are the two calls that close a file *with* its locks.

What is abstracted: file names are numbers in their `strcmp` order; the order
of last use is any order (`Evicts` may close any unlocked shared file, the code
closes the least recently used one, so every behaviour of the code is one of
the model); modes above SHR are one mode, because the lock calls treat them
alike; a time limit is "may be refused while the lock is taken".
`FIO_FLAG_SINGLEUSER`, under which all these calls do nothing, is off.

The kernel (`Holders`, `Blockers`, `CanLock`, `LocksWithout`) is external:
`fcntl` locks of one byte, shared or exclusive, owned by the process and dropped
by any `close` of the file, and semaphores of value 0 or 1.

### LockManager

What the lock calls promise, without handles, closes or tables: a process takes
one lock at a time, only when nobody else has one in conflict, and only its own
calls give locks back. `FileLock!IsLockManager` is the refinement: the locks a
process holds *by its own tables* are the locks of the manager.

### Filepi

`FileLock` plus the interpreter loop of `dbciex.c`: `fpicnt[p]` counts the verbs
left in a filepi section, `counts[p]` is `ACTION_FILEPI`, `trapped[p]` says that
`fpiretptr` is set, and `stage[p]` says whether the program is between verbs
(label `next`), at a verb (label `next1`), or in a verb that holds its data
file's lock (an indexed read, a write at end of file). Parts of expressions undo
the count (`UncountedVerb`); GOTO, CALL and RETURN jump to `next1` and change
nothing, but the RETURN of a trap or event routine resumes the count the call
stopped (`TrapCall`, `TrapReturn`). Verbs that wait for the user or leave the
program end the section like `filepi 0` (`FilepiCancel`). Only local files; files
of a server or of a native handler are not part of it.

### FileCells, RecordFormat, RecordFile

A file is a sequence of cells, and a cell is a byte of a record (a value), the
end mark of a record (`EOR`), the end mark of the file (`EOFC`), a deleted byte
(`DEL`) or a hole (`Zero`). `RecordFormat` says what the code makes of cells: how
many are needed before a record is complete (`GetEnough`, `PrevEnough`), what a
get or a prev answers and how far it moves (`GetAnswer`, `PrevAnswer`, which go
over runs of deleted cells), what a delete asks for (`Deletes`) and what a put
writes, with or without the mark of the end of the file (`PutCells`, decided by the
cached size `fsiz`). Where the file ends behind the data of a record that was put
in parts, `riodelete` (1587) looks for the `EOR` at a byte that an earlier call has
left in its work buffer; `stale`, which is chosen freely, says whether it is one,
and if so the delete makes the file one cell longer. It is one format of `rio.c`: records of a fixed length with the
DB/C marks, not compressed, where `recsz` is the option `RIO_FIX`.

`RecordFile` is a file that was opened without a buffer: every call is one
step and goes to the file. It is also what the buffered file promises.
`parts` says whether the program puts records in parts (`rioparput`), after
which positions, cuts and marks are anywhere; it is chosen once, so that what
holds for whole records is checked beside what holds for all.

### RecordBuffer

The same calls with a buffer of `Bsiz` cells: `bpos`, `bflg` (0 invalid, 1 read,
2 to be written), `bwst` (where the dirty part begins) and `buf`, whose length is
`blen`, are the fields of `struct rtab`; `op` is the call that runs, with the
cells it has gathered or has yet to put. `rioxgb` (`RioXgbReads`), `rioxwb`
(`RioXwb`), the loops of `rioget` and `rioprev` (`RioGetTakes`, `RioPrevTakes`,
one chunk of the buffer each) and of `rioput` (`RioPutChunk`) are steps of their
own, because that is where a lock is asked for and a call can fail. `riodelete`
goes to the file (`Direct`) and does not set `fsiz`, so the delete that makes the
file longer leaves it one cell short; `FsizIsSize` says that nothing else does. It
cannot mislead a put, which looks at the size of the file itself before it gets as
far (`NewFsiz`). A close flushes, and a reopen starts again
(`RioClose`, `RioReopen`); the reopen can be refused, after which the program has
no file (`RioOpenRefused`): the run with failures may end there, so it does
not check for deadlock.

The refinement maps the file to what the buffer makes of it (`Logical`) and a
call in progress to its beginning, so only the last step of a call is a step of
`RecordFile`. An invalid buffer is emptied in the model; the code leaves its
old bytes and does not look at them. `rioweof` does not look at the result of
`fiotrunc`; here that succeeds.

### FileAccess

One process, one system handle. `h` is the `struct htab` (`npos` and `fsiz` are
the remembered position and size, -1 for unknown), `ospos` the position of the
system handle, `disk` the file. `Touched` is `fiotouch`, `Where` the place where a
call lands when it saves its seek, `Reached` what a call leaves that ends well.
A failed read has moved the handle; a failed write has moved it and written some
of its cells. A flush that fails is two steps (`FioflushFails`, `FioflushOpens` or
`FiotouchFails`): it closes the handle whatever its mode, which gives the lock of an
exclusive file back, and the reopen may fail for as long as it likes. `Other` is
another process that extends or cuts the file; one of mode EXC only while it is
closed. `lost` remembers what went wrong: "place" after a read or write that failed,
"alone" after another process changed an exclusive file. Left out: members of
libraries, `fiorename`, and `lseek` of `fiogetsize` and `fiotrunc`, which fails
on no file that could be opened.

### FileOpen

Several processes open one file. `stage[p]` is where process `p` is in `fioaopen`,
`type[p]` its parameter (0 open, 1 create, 2 reopen), `lock` the locks on the byte
at `excloffset`. The open, the lock and the end of a probe are steps of their own.
`Probes`: a PRP or EFC open first looks whether the file can be opened at all, and
gives it back. `TempClose` (`fioclru`, of a shared file, or of any after a failed
flush) and `Fiotouch` close the file and open it again. `Close` is allowed at every
stage, which is also the death of the process. Left out: the
creation of the semaphore, deletes, and the names that lead to one htab
(`fioxop` shares an open in the same mode and refuses other modes without a
system call). `FIO_M_EOC` is refused by `fioopen`.

### IndexKeys, IndexTree

The tree of an index as it is in the blocks of the file: a block number, its
type (`V` leaf, `U` inner, `D` deleted, `F` free record places) and its keys.
Keys are sequences of parts with the place of the record behind; a part stands
for a run of bytes that two keys share whole or not at all, with its length in
the header, so the sizes of blocks (`VSize`, `USize`, `FSize`) are those of the
code, in both formats: from version 9 on a leaf leaves out the bytes a key shares
with the one before it, older files have an end mark. `Find` is `xioxfind` with
the path it leaves; `InsertKey` is `xioxins`: overflow through the parent into
the right brother, else a split (`Overflow`, `PushUp`); `DeleteKey` is `xiodelete`
with the join of brothers or the turn of a key through the parent, up the tree
(`Balance`, `Collapse`). Loops over the levels of the tree (`Trail`, `PushUp`,
`Balanced`) are recursive functions of the number of turns, one turn an operator
of its own (`PushOne`, `Balance`).

### Index, KeyList

`Index` has the calls of one program (`XioFind`, `XioFindLast`, `XioNext`, `XioPrev`,
`XioInsert`, `XioDelete...`, `XioGetRec`, `XioDelRec`) and those of others
(`OtherInsert`, `OtherDelete`). A call is one step, because its callers hold the
lock of the data file around it and blocks are written before it is given back;
but `cur`, the position, lives from call to call, with the number of the block
where it was, which `xionext` tries first (`Shortcut`), whatever that block is by
then. `KeyList` is what an index promises: a set of keys, a set of free places,
and a position that every read moves to the next key in order.

Left out: the cache of blocks (every call reads what the file has), errors of
reads and writes, collating sequences, and keys of 241 bytes and more in blocks of
512, where an inner block has room for one key only and `xiodelete` finds no
brother to the left (`xio.c` 1180).

### KeyedFile

A data file and its index, with unique keys, used by several processes. Index and
locks are taken as what `KeyList` and `LockManager` promise: `keys` gives the place
of a key, `free` the places of deleted records, `flock` and `rlock` say who has the
file and the record locks. A verb is the calls it makes: a read by key or in order is
the search under the file lock (`Searched`), with a record lock the wait for it
(`LockRecord`, `LockRefused`) and the read (`GetRecord`); if the record is gone
(`RecordGone`), a server looks again (`ReadAgain`) and a DX program gets an error. A
write takes a place, inserts the key, puts the record; a delete takes the key, the
record, and gives the place back; an update puts the record that was read. Server
and DX differ only in the second search and in the lock an update of DX ends.
`WriteFails`, `DeleteFails` and `Crash` end a verb between two of its steps.

Record locks are asked for, not enforced, so the programs of the model update or
delete only what they have locked. What the code does with programs that do not is
no question of the code.

### Events

One process and its signal handler. `state`, `multiplex` and `flag` are the tables
and the action bit of `evtunx.c`, `eventflg` and `pollwait` the two words by which
`evtwait` learns of an event on its way to the system call, `tminfo`, `timhi` and
`itimer` the table of `tim.c` and the one alarm. Every statement of `evtclear`,
`evtmultiplex`, `evtwait` and `timstop` that reads or writes what the handler writes
is a step; between any two the handler can run (`TimerCallback`). `timset` is
protected by `pvistart` and is two steps, the clock and the rest. Time passes in
units; `setitimer` gets a tenth of the part of a second (`Alarm`), since `tim.c`
multiplies hundredths by 1000 (lines 173, 249), so alarms may come early and are
asked for again. `FioalockLimits` .. `FioalockReturns` is a lock with a time limit,
which takes the alarm of the process and its handler, `FioalockBlocks` one without,
which blocks the signal. The handle of a timer is its slot.

## 4. Runs

| run | instance | shows |
|---|---|---|
| `lock_table` | 2 processes, 1 file, 2 handles each, 2 records, modes SHR, SRA and exclusive, every call, `openlimit` 1, `SEMLOCK`: writers on semaphores, readers on `fcntl` | tables and kernel agree, locks exclude, no semaphore drifts, refinement of `LockManager` |
| `filepi_order` | 2 programs, 2 files, waits without limit | no deadlock, every wait ends |
| `filepi_section` | 2 programs, 2 files, refused locks, trap routines, replaced sections, verbs that use files outside of the list | a list is all or nothing, the locks of a section end with its count, the count is never lost; refinement when a list closes and reopens files |
| `record_file` | records of length 2 with 2 values, files up to 10 cells, 7 with parts | without parts the file stays a sequence of records (`WholeFile`), is read in both directions with one result (`BackIsForward`), reads never answer an error, and the parts of a record make one |
| `record_buffer` | records of length 1 with 2 values, buffer of 3 cells, files up to 7 cells, 4 with parts, 5 with a failing lock, read, write or open in any call | the buffer agrees with the file, stays in its bounds, `fsiz` is right, refinement of `RecordFile`; a put is lost only in a call that answers an error; every call returns |
| `file_open` | 3 processes, modes SHR, ERO, EXC, PRP, EFC | an exclusive open is alone, and only a prepare changes its data beside it |
| `file_access` | files up to 3 cells, calls of up to 2, all failures | until a read or a write fails, saved seeks would change nothing and the cached size is right |
| `index` | five files: trees of three levels in both formats with two changes, up to four long keys with any number of changes, keys that share bytes and have duplicates, free record places | the tree stays balanced and in order, no block is lost or used twice, positions survive the changes of others, refinement of `KeyList` |
| `keyed_file` | a server connection and a DX program, 2 keys, 2 places, 1 failure | index and records stay together, no update is lost, no verb leaves a lock |
| `events` | 2 events, 2 timers of up to a second, 1 lock with a time limit | no event is missed but in the two gaps named below, every timer fires or is stopped |

Two runs end in a counterexample; `PROJECT.json` ("findings") quotes what each
contradicts.

| run | what happens |
|---|---|
| `record_stale` | `rioxgb` sets `bpos` before the lock and the read; when one fails, the buffer stays "valid" at a place it does not hold, and the next get answers its old bytes |
| `file_position_lost` | a failed read or write has moved the handle but not `npos`; the next call at `npos` saves its seek and works at another place |

Bounds. Two processes are enough for every conflict of the properties, which
all speak of two; two handles are needed for one file under two handles and for
a list of two; two records for a handle with one of several locks;
`openlimit` 1 makes every touch of another file close one. `Pos`, `File`,
`Handle` and `MaxCount` are the only bounds of the lock modules, no counter is
cut off.

In `Index` the smallest blocks of real files (512 bytes) and keys near the longest
make trees of three levels of nine keys: every overflow, split, join and turn happens,
on inner blocks too, and at both ends. The long run has up to four keys and no bound
on the changes, so the chain of deleted blocks is emptied and filled again. The run
of free places (`Recs`) has blocks of 33 bytes, in which four places fit; 84 fit in
the smallest real one. In `KeyedFile` one place more than a program holds is enough for a
place to be used again for another key, and one failure for each step at which a verb
can end; with three places the properties hold as well (6 million states). In `Events`
two events show which of them the scan of `evtclear` has passed, two timers which of
them the alarm is for; a unit of half a second makes alarms of less than a second,
of one and of one and a half.

In the record modules `MaxLen` bounds the puts of programs that put whole records,
`MaxParLen` of those that put parts, `Failures` how many calls of the system fail. A buffer of 3 cells holds one record of length 1 with
its mark and a half of the next, so records, runs of deleted cells and the end
mark cross its end at every offset; 7 cells are more than two buffers, so a call
can meet the buffer before, inside and behind it. `RecordFile` has records of
length 2, since a deleted run is told from a record by its length only. In
`FileAccess` 3 cells are enough for a read that is short, one at the end and
one beyond it. In `FileOpen` three processes let a third act between a probe and
the open it was made for. One failure is enough for the properties that speak of
it, which follow the first one.

Fairness (`FilepiFair`, only in `filepi_order`). A program that is not waiting
runs on: weak fairness of its steps, since inside a filepi section no verb
waits for a user; and it does not loop for ever in verbs that do not count or in
a trap routine (strong fairness of `Counted` and `TrapReturn`). That is asked of
the DX program, not of the runtime: the runtime keeps the locks of a section as
long as a trap routine or a loop of jumps runs. A lock that becomes free again and again is granted to each
of its waiters in the end: strong fairness of the grant; the kernels queue their
waiters. The run covers the default `filetimeout` of -1 (wait for ever).

What `filepi_order` needs: `Disciplined`, programs that in a section use only
files of its list. Without it a section that reads an unlisted indexed file can
deadlock, which is why `fcntl` reports `EDEADLK` and `Refused` has that case.

In `record_buffer` a call that was made runs on (`FairBufferSpec`, weak fairness of its
steps): between the call and its return the code waits for nobody but the
file's lock, whose refusal is a failure. Whether the program makes calls is left open.

In `events` the program runs on inside a call (weak fairness of `Steps`), a signal
that is due is delivered, and time does not stand still, although the handler may run
many times in one unit (strong fairness of `Tick`). Whether the program makes calls
is left open, and `evtwait` may sleep for ever. `FioalockReturns` is among the steps: a
lock with a time limit ends. One without may last, but not for ever
(`FioalockUnblocks`), which `TimersFire` needs: its wait blocks SIGALRM.

Symmetry over the processes is used in the runs that check no liveness.

## 5. Proofs

Every property that a run with `expect` "pass" checks is proved for all values of
the constants, but for liveness and two properties of the index, `IsKeyList` and
`ReadsInOrder` (see the end of this section).

`LockProofs` proves, for every number of processes, files, handles, records
and every `openlimit`, every property of `FileLock` and every safety property of
`Filepi` that the runs check. What it says of `FileLock` rests on
`FileLockAssumption` (types of the constants) alone.

The inductive invariant is `LockInv`: types; what the kernel and the semaphores
guarantee by themselves (`KernelExcludes`, `SemaphoreCount`); and for each
process `RowInv`: its tables say exactly what the kernel holds for it
(`Agrees`), a locked file is open (`OpenIfLocked`), record locks belong to
handles (`OwnsRecords`), and a waiting call still has what it looked at
(`CallReady`). Exclusion alone is not inductive: a table could claim a lock the
kernel lost. `Agrees` is not either: without `OpenIfLocked` an eviction could
drop a lock, and without the single lock flag of `CallReady`, `fiounlock` of a
file that also carries an `fioflck` flag would drop the lock and keep a flag.

The argument: `ReleaseKernel` and `AcquireKernel` show that no unlock or grant
breaks the kernel's part; `GivesStep`, `FileTaken`, `RecordTaken` and
`CallStep` are the four ways a step can change the tables, and each action is
shown to be one of them; `OtherRow` shows that it leaves the other processes
alone. From `LockInv` follow the exclusion theorems; `AllOrNothing` is an action
property; `Refinement` uses that, under `LockInv`, the locks by the tables *are*
the kernel's.

It also proves that every program of `Filepi` is a program of `FileLock`
(`FilepiUsesFileLock`), so that all of the above holds for the interpreter too, and,
for any count, that the locks of filepi do not outlive its section and that the count
is not lost to a trap routine. `FilepiAssumption` adds that the program may call
`fiolock` and `fioflck`, and that files are finitely many. The invariant `FilepiInv`
is `LockInv` with `SectionInv`: between verbs no call waits, a lock of filepi belongs
to a section or to the `fiolock` that is taking it, and a section is counted or will be
when the trap routine returns.
`SectionHasLocks` alone is not inductive: the end of a section unlocks with a call that
may not be waiting, which the stage of the program says.

`NeverInACircle` is the absence of deadlock, for any number of programs and files,
under the assumption `Disciplined` that the run has too. `OrderedInv` adds to
`FilepiInv` that a program that waits has file locks only of files before the one it
waits for (`OrderInv`): `fiolock` takes its list in one order, and outside of a
section a verb waits for one file and has none. So in a circle every file that is
waited for has one behind it that is waited for too (`WaitsUpwards`), which the last
one of finitely many has not.

`SupportProofs` has the proofs of three modules that share no state.

Of `FileOpen` it proves for every set of processes and modes that an exclusive
open is alone. The invariant (`OpenInv`) is that who has the file open or probes it
holds the lock of its mode, which `ExclusiveIsAlone` alone does not say; the kernel's
rule is the rest. `OnlyPrepare` adds that a file that is open exists, so that EFC
cannot create it, and leaves the truncation of a prepare as the only thing that
changes the data of an exclusive open: PRP gives its probe lock back and truncates
before it has the lock again.

Mode ERO takes the read lock of the shared modes (`LockKind`), so on this build
"exclusive read only" excludes exclusive writers only; no property says more.

Of `FileAccess` it proves, for files and calls of any length, that the remembered
position is that of the handle and that reads and writes go where they are asked
for, until a read or a write fails ("place" in `lost`; the run `file_position_lost` shows
that this is needed), whatever else fails. `SeekSaved` is the heart: a seek
that is saved goes to where the handle is. `SizeAnswered`: the size that `fiogetsize`
remembers of an exclusive file is the length of the file, since every call that
changes it sets or forgets the size; a shared file is always asked. It ends where the
code ends it: a failed `fioflush` gives the lock of an exclusive file back, and if
another process changes the file before the reopen, `fiogetsize` goes on answering
the size it remembers.

`KeyedFileProofs` proves the four properties of `KeyedFile` for any number of
processes, keys, places and faults, from `KeyedFileAssumption` (types, and that the
mark for "no lock" is no process). The inductive invariant `KeyedInv` has two layers.
`LockRow` says at each step of a verb which locks its process has, and holds whatever
failed or died; `NoLockLeft` follows. The rest holds until the first fault. `FileInv`:
a place is free once and then has no record, no key and record are without each
other but for those that the holder of the file lock has in work, and a key that was
searched without a record lock is still there. `Seen`: a record that a program has
locked is as it has read it. `KeysHaveRecords` alone is not inductive: it says nothing
of the places that are free, and one that is free twice, or has a record, would be
given to a second key. `Alone` says that a step leaves the calls and locks of the
others as they are, `KeyedStep` that it then only has to be looked at for its own
process; `QuietStep` deals with the steps that change no file.

Of `Events`, `SupportProofs` proves `NoEventMissed` for any number of events and timers. The
invariant `EventInv` says of each place in a call what the program has seen and the
handler may have changed since: `FlagInv`, that an event that shows in the action flag
and is set is in front of the scan, about to be tested, or raised the flag; `WaitInv`,
that an event of `evtwait` is noted in `eventflg` until it has been taken over into
`pollwait`, and there until the system call; `CallShape`, what the locals of a call
are. `NoEventMissed` says nothing of the steps between its two conditions; the
invariant is what they hand on.

`RecordFormatProofs` has no theorems but the lemmas about cells that the next two
modules cite: what `Leading` and `Trailing` count, what is where after `ReadAt` and
`WriteAt`, when a get or a prev has enough, and what it answers for a record, a deleted
run or an end. Where they need the least number of a kind, or the last slot of a file,
they take it from the well-foundedness of the numbers (`WFMin`). They rest on
`RecordFormatAssumption`: a record has at least one byte, and no byte of a record is
one of the three marks, as the bytes 0xFA, 0xFB and 0xFF are no characters
(`fio.h` 193-196).

`RecordFileProofs` proves the four properties of `RecordFile` for records and files of
any length. The invariant `RecordInv` adds to the types that without parts the file is
`Whole`: a number of slots, each a record or deleted, and one end mark, with both
positions at begins of slots. From it each answer is computed: a get or a prev at the
begin of a slot sees one slot, or a run of deleted ones, or the end. `PartsAreOneRecord`
needs no more than the types.

`RecordBufferProofs` has three layers, for a buffer of any size.

* `BufferInv` holds whatever fails: types, what a call has gathered or has yet to put
  (`CallShape`), and `WriteBufferInBounds`, which is thereby inductive. From it follow
  `WriteBufferFits` and `LossesAreReported`. The heart of the second is
  `PutKeepsLogical`: to put the first cells of a call into the buffer, in front of, in
  or behind what is there, leaves the file as it will be once the rest is put
  (`TailOfWrite`, `WriteNested`, `WriteTwice`), so that what the file will be changes
  only where a call begins or gives up.
* `SoundInv` holds until the first failure: a buffer that was read is what the file has
  at its place (`Fresh`), `fsiz` is the size that the file will have at the end of the
  call, or one less while deleted cells of `riodelete` end the file (`SizeRight`), positions are inside (`InFile`), and what a get or a prev has
  gathered are the cells of the file next to its position (`Gathered`).
  `ReadBufferIsFile` and `FsizRight` follow. Neither is inductive alone: `FsizIsSize` says
  nothing while a call runs, and without `InFile` a put could leave a hole.
* `BufferImplementsFile` is the refinement, step by step: the start of a call and each of
  its chunks but the last change nothing in `RecordFile`, the last is the call.
  `GetOfPrefix` and `PrevOfSuffix` are what that needs of the format: as soon as the
  gathered cells are enough, they give the answer that all the cells would give.

`RecordBufferAssumption` says that the buffer has at least one cell; its
`MaxFailLen <= MaxLen` relates two bounds of the model and nothing of the code.

`IndexTreeProofs` and `IndexProofs` prove `TreeIsBalanced` and `BlocksHaveOnePlace` for
keys of any number of parts and any length, blocks and trees of any size, both formats,
with and without duplicates. They rest on `IndexAssumption`: types, and that a block has
room for two keys. Every block of 1024 bytes (the default of the index utility) and more
has, and those of 512 for keys of up to 240 bytes, at version 8 up to 232; the utility
lets keys have 255 (`XIO_MAX_KEYSIZE`) in any block, and of an index with the longest keys
in the smallest blocks nothing is modelled or proved. The argument has four layers.

* *The shape of a tree*, without the file (`Shape`). Each block has a level and two
  bounds; its keys rise inside of them, the bounds of its kids are the keys beside them,
  a kid is one level lower, and leaves are at level 0. `TreeIsBalanced` alone is not
  inductive: it says nothing of the keys that a block *may* get, so an insert next to a
  key of a branch could not be shown to stay in order; the bounds say it. `Shape` also
  covers the steps in between: one block may have been split with its new half not
  yet in the parent (`Hole`), and some blocks may be empty. `Split`, `Absorb`, `Grow`,
  `Join`, `Rotate`, `Heir`, `Drop` and `DropTop` are the eight ways in which the tree
  changes, each for every shape and place.
* *The file* (`Stored`). The blocks of the tree, of the chain of deleted blocks and of
  the chain of free record places are all the blocks, and share none (`Whole`); what is in
  a block fits in it. Sizes are where the two formats differ: with front compression an
  entry depends on the one before it, so that a part of a leaf fits is a lemma of its own
  (`TotalAmong`, `RepeatsMore`).
* *The loops*. `PushesUp` and `Rebalanced` are the loops of `xioxins` and `xiodelete`: `Pending`
  and `Thin` say what holds after each turn, of the tree and of the part of the path that
  is left. The model has its loops as functions on `0 .. n`, so that they are taken apart
  turn by turn (`UpTo`); `FindIs` does the same for the search.
* *The calls*. `Sound` is an index without a tree, or with a tree that has a shape, is
  stored whole and has nothing pending or empty. `IndexInv`, that the index in use is
  `Sound`, is the inductive invariant: `InsertSound`, `DeleteSound` and `PlacesSound` are the
  steps of the calls, `LoadedSound` is the index that the program opens. From it follow
  `OnePlaceForBlocks`, where a block is named by the header, by one branch or by the
  block before it in its chain, and every way back ends (`BackEnds`), and `BalancedTree`,
  where the way back from a leaf is as long as the root is high.

Out of the reach of the prover, and only model-checked: liveness (`FilepiReturns`,
`IoReturns`, `CallsReturn`, `TimersFire`). Not proved: `IsKeyList` and `ReadsInOrder`, which
say of the index *which* keys are there after an insert or a delete and in which order
`xionext` and `xioprev` come to them; `FindIs` is what the proofs have of it.

## 6. What the models showed

Beside the two counterexamples, the properties name what the code does not promise;
these are the places a maintainer may want to look at.

* Keyed files. Nothing is taken back when a step of a verb fails: a write that fails
  after its insert leaves a key without a record, a delete that fails or dies a record
  without a key, whose place is not free; later verbs can then revive the record or
  make two keys of one place, and a program with a lock on such a place can lose an
  update. `KeysHaveRecords`, `ReadsTheKey` and `NoUpdateLost` therefore speak of the
  time before; `NoLockLeft` holds at all times.
* A read with a record lock (`fsfile.c` 466-490, `dbcdio.c` 1203-1237) gives the file
  lock back before it waits for the record. When the place was deleted and used again
  meanwhile, it answers the record of another key (`ReadsTheKey` says exactly when).
* A write that is refused as a duplicate does not return the place it took from the
  free places (`fsfile.c` 882-892): the place is never used again.
* `evtclear` scans the events and then turns the action flag off (`evtunx.c`
  215-219); an event that the handler sets behind the scan is set without the flag.
  `pvistart` is not called there. `evtwait` has the gap its comment speaks of
  (536-538).
* A lock with a time limit does not set the alarm again that was due in less than a
  second (`fioaunx.c` 479: only `tv_sec` is compared), even when the lock is granted at
  once. The handler then runs no more, until a timer is set that is earlier than all
  others.
* With `RIO` buffers, the `fiofulk` of a buffer flush ends a lock its caller took
  (`rio.c` 1966); the server opens its files without a buffer.

## 7. Not modelled

See `PROJECT.json` ("components"). Of the modelled layers: other record formats,
compression, the log and `riokill` of `rio.c`; record files shared by several
programs and `RANDWRTLCK`; the refinement of records when calls fail, since the
code promises nothing about the file then beyond the error it answers
(`LossIsReported`); library members; deletes; the creation of semaphores. Windows (`fioawin.c`) is left aside: there
locks are owned by handles. SQL, printing, screens, GUI, compiler, utilities and
clients are out of scope: they are sequential transformations or I/O on top of
the layers above, or third-party code.
