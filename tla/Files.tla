-------------------------------- MODULE Files -------------------------------
(***************************************************************************)
(* lib/posix/options: fd_mgmt, of which fcntl.c translates commands, flags *)
(* and record locks between the C library's numbers and ZVFS's;            *)
(* file_system/fs.c and file_system_r, directory streams; and              *)
(* device_io/select.c, what it makes of its timeout.  What ZVFS does with  *)
(* descriptors and locks is that of zephyr/patches (zvfs-dup, zvfs-fcntl-  *)
(* getfd-setfd, zvfs-fcntl-record-lock); eventfd and fs_* are external.    *)
(*                                                                         *)
(* Bound: at most one file and one event object are open, by any number of *)
(* descriptors; neither shares anything with a second.  Flags are sets of  *)
(* bit positions.                                                          *)
(***************************************************************************)
EXTENDS Integers, Sequences, FiniteSetsExt

CONSTANTS
    Fds,        \* the descriptor table
    Streams,    \* CONFIG_ZVFS_FS_DESC_MAX: struct zvfs_fs_desc
    Listing,    \* Listing[path]: the lengths of the names in a directory
    NameMax,    \* MAX_FILE_NAME
    LockMax,    \* CONFIG_ZVFS_FS_RECORD_LOCK_MAX
    RangeEnd,   \* ZVFS_RECORD_LOCK_RANGE_END, which no byte of a file reaches
    NULL

VARIABLES
    libc,       \* "same": the C library's numbers are ZVFS's; or "other"
    file,       \* file[f]: .obj the object that a descriptor is open on, .fd its flags
    object,     \* .fl the flags of the event object, .locks the record locks of the file
    told,       \* what the program set of them, in its own numbers and names
    ret,        \* what the last call returned
    dir         \* the directory stream of each zvfs_fs_desc, or NULL

fileVars == <<libc, file, object, told, ret, dir>>

-----------------------------------------------------------------------------
(* fcntl *)

Bits == 0..2
MinusOne == Bits                            \* -1, as a set of bits
ZNonblock == 2
Nonblock == IF libc = "same" THEN 2 ELSE 1  \* O_NONBLOCK

ZCmd == [F_GETFD |-> 1, F_SETFD |-> 2, F_GETFL |-> 3, F_SETFL |-> 4,
         F_GETLK |-> 5, F_SETLK |-> 6, F_SETLKW |-> 7]
Cmd == IF libc = "same" THEN ZCmd
       ELSE [ZCmd EXCEPT !.F_GETLK = 7, !.F_SETLK = 8, !.F_SETLKW = 9]

ZType == [F_RDLCK |-> 1, F_WRLCK |-> 2, F_UNLCK |-> 3]
Type == IF libc = "same" THEN ZType ELSE [F_RDLCK |-> 0, F_WRLCK |-> 1, F_UNLCK |-> 2]

\* The name that a number has in one table, in the numbers of another.
Renumber(n, from, to) ==
    LET names == {x \in DOMAIN from : from[x] = n} IN
    IF names = {} THEN n ELSE to[CHOOSE x \in names : TRUE]

fcntl_posix_to_zvfs_cmd(cmd) == Renumber(cmd, Cmd, ZCmd)
fcntl_posix_to_zvfs_lock_type(t) == Renumber(t, Type, ZType)
fcntl_zvfs_to_posix_lock_type(t) == Renumber(t, ZType, Type)
\* SEEK_SET, SEEK_CUR and SEEK_END are 0, 1 and 2 in both.
Whence == [SEEK_SET |-> 0, SEEK_CUR |-> 1, SEEK_END |-> 2]
fcntl_posix_to_zvfs_whence(w) == Renumber(w, Whence, Whence)
fcntl_zvfs_to_posix_whence(w) == Renumber(w, Whence, Whence)

\* One bit moved to where the other side has it.
Moved(s, from, to) == IF from # to /\ from \in s THEN (s \ {from}) \cup {to} ELSE s

\* FD_CLOEXEC is 1 on both sides.
fcntl_posix_to_zvfs_arg(zcmd, arg) ==
    IF zcmd = ZCmd.F_SETFL THEN Moved(arg, Nonblock, ZNonblock) ELSE arg

\* (mutant) the result is returned as it is
fcntl_zvfs_to_posix_result_raw(zcmd, res) == res

fcntl_zvfs_to_posix_result(zcmd, res) ==
    IF zcmd = ZCmd.F_GETFL THEN Moved(res, ZNonblock, Nonblock) ELSE res

\* The offsets stay as they are.
fcntl_posix_to_zvfs_flock(l) ==
    [type |-> fcntl_posix_to_zvfs_lock_type(l.type),
     whence |-> fcntl_posix_to_zvfs_whence(l.whence), start |-> l.start, len |-> l.len]
fcntl_zvfs_to_posix_flock(l) ==
    [type |-> fcntl_zvfs_to_posix_lock_type(l.type),
     whence |-> fcntl_zvfs_to_posix_whence(l.whence), start |-> l.start, len |-> l.len]

-----------------------------------------------------------------------------

(* Descriptors.  Closing the last one of an object closes the object. *)

Closed == [obj |-> "none", fd |-> {}]
NoResult == [cmd |-> "none", fd |-> NULL, res |-> {}, lock |-> NULL, asked |-> NULL]
Bytes == 0..RangeEnd - 1
Unlocked == [b \in Bytes |-> "F_UNLCK"]

Init ==
    /\ libc \in {"same", "other"}
    /\ file = [f \in Fds |-> Closed]
    /\ object = [fl |-> {}, locks |-> {}]
    /\ told = [fl |-> {}, fd |-> [f \in Fds |-> {}], lock |-> Unlocked]
    /\ ret = NoResult
    /\ dir = [s \in Streams |-> NULL]

\* zvfs_fd_obj_refcount
Sharing(f) == {g \in Fds : file[g].obj = file[f].obj}

Use(f, obj, fdFlags) ==
    /\ file' = [file EXCEPT ![f] = [obj |-> obj, fd |-> fdFlags]]
    /\ ret' = NoResult
    /\ UNCHANGED <<libc, dir>>

open(f) ==
    /\ file[f].obj = "none" /\ \A g \in Fds : file[g].obj # "file"
    /\ Use(f, "file", {})
    /\ told' = [told EXCEPT !.fd[f] = {}, !.lock = Unlocked]
    /\ UNCHANGED object

eventfd(f) ==
    /\ file[f].obj = "none" /\ \A g \in Fds : file[g].obj # "event"
    /\ Use(f, "event", {})
    /\ told' = [told EXCEPT !.fd[f] = {}, !.fl = {}]
    /\ object' = [object EXCEPT !.fl = {}]

\* zvfs_record_lock_drop_obj, for the last descriptor of a file
Dropped(f) ==
    IF file[f].obj = "file" /\ Sharing(f) = {f} THEN [object EXCEPT !.locks = {}] ELSE object

close(f) ==
    /\ file[f].obj # "none"
    /\ Use(f, "none", {})
    /\ object' = Dropped(f)
    /\ UNCHANGED told

\* dup, F_DUPFD and F_DUPFD_CLOEXEC take a free descriptor, dup2 closes the one it takes.
Duplicate(f, g, fdFlags) ==
    /\ file[f].obj # "none" /\ f # g
    /\ Use(g, file[f].obj, fdFlags)
    /\ object' = Dropped(g)
    /\ told' = [told EXCEPT !.fd[g] = fdFlags]

dup(f, g) == file[g].obj = "none" /\ \E fdFlags \in {{}, {0}} : Duplicate(f, g, fdFlags)
dup2(f, g) == file[g].obj # "none" /\ Duplicate(f, g, {})

\* F_SETFD keeps FD_CLOEXEC.  F_SETFL: an event object takes the flags that it
\* knows (EINVAL for another), and a file none (EOPNOTSUPP).
EventFlags == {0, ZNonblock}
FcntlSetFd(f, arg) ==
    LET zcmd == fcntl_posix_to_zvfs_cmd(Cmd.F_SETFD) IN
    /\ file[f].obj # "none" /\ zcmd = ZCmd.F_SETFD
    /\ file' = [file EXCEPT ![f].fd = fcntl_posix_to_zvfs_arg(zcmd, arg) \cap {0}]
    /\ told' = [told EXCEPT !.fd[f] = arg]
    /\ ret' = NoResult
    /\ UNCHANGED <<libc, object, dir>>

FcntlSetFl(f, arg) ==
    LET zcmd == fcntl_posix_to_zvfs_cmd(Cmd.F_SETFL)
        zarg == fcntl_posix_to_zvfs_arg(zcmd, arg)
    IN  /\ file[f].obj = "event" /\ zcmd = ZCmd.F_SETFL /\ zarg \subseteq EventFlags
        /\ object' = [object EXCEPT !.fl = zarg]
        /\ told' = [told EXCEPT !.fl = arg]
        /\ ret' = NoResult
        /\ UNCHANGED <<libc, file, dir>>

\* F_GETFD, F_GETFL; a -1 (EBADF, or EOPNOTSUPP of a file) is translated too.
FcntlGet(f, name) ==
    LET zcmd == fcntl_posix_to_zvfs_cmd(Cmd[name])
        res == IF file[f].obj # "none" /\ zcmd = ZCmd.F_GETFD THEN file[f].fd
               ELSE IF file[f].obj = "event" /\ zcmd = ZCmd.F_GETFL THEN object.fl
               ELSE MinusOne
    IN  /\ ret' = [NoResult EXCEPT !.cmd = name, !.fd = f,
                                   !.res = fcntl_zvfs_to_posix_result(zcmd, res)]
        /\ UNCHANGED <<libc, file, object, told, dir>>

-----------------------------------------------------------------------------
(* Record locks, which belong to the object and name the process that set them. *)

\* There is one process: getpid returns one number, whoever calls.
record_lock_pid == 1

\* From where a lock counts: the start or, of the two other values of whence, a
\* position that the file has.
Bases(z) == IF z.whence = Whence.SEEK_SET THEN {0} ELSE 0..1

\* EINVAL; an end that is less than the start is one more, beyond RangeEnd.
Unresolved(z) ==
    z.whence \notin {Whence[w] : w \in DOMAIN Whence} \/ z.start < 0 \/ z.len < 0

record_lock_resolve_range(z, base) ==
    [start |-> base + z.start,
     end |-> IF z.len = 0 THEN RangeEnd ELSE base + z.start + z.len]

record_lock_regions_overlap(a, b) == a.start < b.end /\ b.start < a.end

record_lock_types_conflict(t, u) ==
    ZType.F_UNLCK \notin {t, u} /\ ~(t = ZType.F_RDLCK /\ u = ZType.F_RDLCK)

record_lock_remove_overlapping(r) ==
    {e \in object.locks : ~(e.pid = record_lock_pid /\ record_lock_regions_overlap(e, r))}

record_lock_find_conflict(r, type) ==
    {e \in object.locks : /\ record_lock_regions_overlap(e, r) /\ e.pid # record_lock_pid
                          /\ record_lock_types_conflict(type, e.type)}

\* The locks afterwards, and whether the call succeeded.  The process's own locks
\* that overlap go first, whole; ENOLCK without room for the new one.
record_lock_apply(z, r) ==
    LET kept == record_lock_remove_overlapping(r) IN
    CASE z.type = ZType.F_UNLCK -> [ok |-> TRUE, locks |-> kept]
      [] z.type \in {ZType.F_RDLCK, ZType.F_WRLCK} ->
           IF Cardinality(kept) >= LockMax THEN [ok |-> FALSE, locks |-> kept]
           ELSE [ok |-> TRUE,
                 locks |-> kept \cup {[start |-> r.start, end |-> r.end, type |-> z.type,
                                       pid |-> record_lock_pid]}]
      [] OTHER -> [ok |-> FALSE, locks |-> object.locks]

Named(type) == {n \in DOMAIN Type : Type[n] = type}
Within(r) == {b \in Bytes : r.start <= b /\ b < r.end}

\* F_SETLK, F_SETLKW.  A lock of another process would fail the one (EAGAIN) and
\* delay the other.
FcntlSetLock(f, name, l, base) ==
    LET z == fcntl_posix_to_zvfs_flock(l)
        r == record_lock_resolve_range(z, base)
        done == record_lock_apply(z, r)
    IN  /\ fcntl_posix_to_zvfs_cmd(Cmd[name]) \in {ZCmd.F_SETLK, ZCmd.F_SETLKW}
        /\ file[f].obj = "file" /\ ~Unresolved(z) /\ base \in Bases(z)
        /\ record_lock_find_conflict(r, z.type) = {}
        /\ object' = [object EXCEPT !.locks = done.locks]
        /\ IF done.ok /\ Named(l.type) # {}
           THEN /\ told' = [told EXCEPT !.lock =
                              [b \in Bytes |-> IF b \in Within(r) THEN CHOOSE n \in Named(l.type) : TRUE
                                               ELSE told.lock[b]]]
                /\ ret' = [NoResult EXCEPT !.cmd = "F_SETLK", !.asked = r]
           ELSE ret' = NoResult /\ UNCHANGED told
        /\ UNCHANGED <<libc, file, dir>>

\* F_GETLK: the lock that is in the way, or the caller's structure with F_UNLCK.
\* A type other than the two of a lock is refused with EINVAL, F_UNLCK too.
FcntlGetLock(f, l, base) ==
    LET z == fcntl_posix_to_zvfs_flock(l)
        r == record_lock_resolve_range(z, base)
        inTheWay == {[type |-> e.type, whence |-> Whence.SEEK_SET, start |-> e.start,
                      len |-> IF e.end = RangeEnd THEN 0 ELSE e.end - e.start]
                        : e \in record_lock_find_conflict(r, z.type)}
    IN  /\ fcntl_posix_to_zvfs_cmd(Cmd.F_GETLK) = ZCmd.F_GETLK
        /\ file[f].obj = "file" /\ ~Unresolved(z) /\ base \in Bases(z)
        /\ z.type \in {ZType.F_RDLCK, ZType.F_WRLCK}
        /\ \E found \in IF inTheWay = {} THEN {[z EXCEPT !.type = ZType.F_UNLCK]} ELSE inTheWay :
             ret' = [NoResult EXCEPT !.cmd = "F_GETLK", !.asked = l,
                                     !.lock = fcntl_zvfs_to_posix_flock(found)]
        /\ UNCHANGED <<libc, file, object, told, dir>>

-----------------------------------------------------------------------------
(* Directory streams: the path and how many entries have been read. *)

\* EMFILE without a zvfs_fs_desc; one that fs_opendir refuses is given back.
opendir(path) == \E s \in Streams :
    /\ dir[s] = NULL
    /\ dir' = [dir EXCEPT ![s] = IF path \notin DOMAIN Listing THEN NULL
                                 ELSE [path |-> path, pos |-> 0]]
    /\ ret' = NoResult
    /\ UNCHANGED <<libc, file, object, told>>

\* Whether fs_closedir succeeds or not
closedir(s) ==
    /\ dir[s] # NULL
    /\ dir' = [dir EXCEPT ![s] = NULL]
    /\ ret' = NoResult
    /\ UNCHANGED <<libc, file, object, told>>

\* readdir: NULL at the end, else the name, cut to the array; readdir_r has an
\* array of the same size.  An error of fs_readdir leaves the stream alone.
readdir(s) ==
    /\ dir[s] # NULL
    /\ LET names == Listing[dir[s].path] IN
       IF dir[s].pos = Len(names)
       THEN ret' = [NoResult EXCEPT !.cmd = "end", !.fd = s] /\ UNCHANGED dir
       ELSE /\ dir' = [dir EXCEPT ![s].pos = @ + 1]
            /\ ret' = [NoResult EXCEPT !.cmd = "entry", !.fd = s,
                         !.res = {Min({names[dir[s].pos + 1], NameMax - 1})}]
    /\ UNCHANGED <<libc, file, object, told>>

-----------------------------------------------------------------------------
(* select: .res is the set of timeouts that zvfs_select is given, none or one. *)

\* timeval_to_timespec: nanoseconds are carried, a negative time is refused.
timeval_to_timespec(tv) == tv.sec * 1000 + tv.usec

\* Without a timeout the timespec is never written: it holds anything.
select(tv) ==
    /\ tv # NULL => timeval_to_timespec(tv) >= 0
    /\ \E to \in IF tv = NULL THEN {-1, 0, 1500} ELSE {timeval_to_timespec(tv)} :
         ret' = [NoResult EXCEPT !.cmd = IF tv = NULL THEN "select forever" ELSE "select",
                                 !.res = {to}]
    /\ UNCHANGED <<libc, file, object, told, dir>>

\* Types that have a name and one that has none, and two structures that are refused.
Locks == [type : 0..3, whence : {0}, start : {0, 1}, len : {0, 1}]
         \cup [type : 0..3, whence : {1}, start : {0}, len : {1}]
         \cup [type : {Type.F_WRLCK}, whence : {0}, start : {-1}, len : {1}]
         \cup [type : {Type.F_WRLCK}, whence : {3}, start : {0}, len : {1}]

\* Bound: the flags of descriptors, record locks and directory streams share
\* nothing, and so they are used one kind at a time.
NoDirs == \A s \in Streams : dir[s] = NULL
NoFiles == \A f \in Fds : file[f].obj = "none"
NoFlags == object.fl = {} /\ told.fl = {} /\ \A f \in Fds : file[f].fd = {}
NoLocks == object.locks = {} /\ told.lock = Unlocked

Next ==
    \/ NoDirs /\ \E f \in Fds :
         \/ open(f) \/ eventfd(f) \/ close(f)
         \/ \E g \in Fds : dup(f, g) \/ dup2(f, g)
    \/ NoLocks /\ \E f \in Fds :
         \/ \E arg \in {{}, {1}, {0, Nonblock}, {0, 2}, {2, Nonblock}} : FcntlSetFl(f, arg)
         \/ \E arg \in SUBSET {0} : FcntlSetFd(f, arg)
         \/ FcntlGet(f, "F_GETFL") \/ FcntlGet(f, "F_GETFD")
    \/ NoFlags /\ \E f \in Fds, l \in Locks, base \in {0, 1} :
         \/ FcntlSetLock(f, "F_SETLK", l, base) \/ FcntlSetLock(f, "F_SETLKW", l, base)
         \/ FcntlGetLock(f, l, base)
    \/ NoFiles /\ \E p \in DOMAIN Listing \cup {"none"} : opendir(p)
    \/ \E s \in Streams : readdir(s) \/ closedir(s)
    \/ NoDirs /\ NoFiles /\ \E tv \in {NULL} \cup [sec : {-1, 0, 1}, usec : {0, 500}] : select(tv)

Spec == Init /\ [][Next]_fileVars

-----------------------------------------------------------------------------
(* Properties *)

Covers(e, b) == e.start <= b /\ b < e.end

\* A record lock that the file has is one that the program asked for, last of all
\* for each of its bytes and through any descriptor; a call that returned 0 left
\* the bytes it named locked or, for F_UNLCK, free; and the locks go with the last
\* descriptor of the file.
LocksAsAsked ==
    /\ \A e \in object.locks : \A b \in Bytes : Covers(e, b) => e.type = ZType[told.lock[b]]
    /\ ret.cmd = "F_SETLK" => \A b \in Within(ret.asked) :
         (\E e \in object.locks : Covers(e, b)) <=> told.lock[b] # "F_UNLCK"
    /\ (\A f \in Fds : file[f].obj # "file") => object.locks = {}

\* What fcntl returns is what the program set, in the program's numbers: the flags
\* of each descriptor, and the flags of its object unless one of them has the bit
\* that ZVFS uses for another.  F_GETLK never tells the one process of its own
\* locks: it returns the structure that it was given, with F_UNLCK.
FcntlReadsBack ==
    /\ ret.cmd = "F_GETFL" /\ file[ret.fd].obj = "event" /\ (libc = "same" \/ ZNonblock \notin told.fl)
         => ret.res = told.fl
    /\ ret.cmd = "F_GETFD" /\ file[ret.fd].obj # "none" => ret.res = told.fd[ret.fd]
    /\ ret.cmd = "F_GETLK" => ret.lock = [ret.asked EXCEPT !.type = Type.F_UNLCK]
    /\ LocksAsAsked
=============================================================================
