--------------------------------- MODULE Shm --------------------------------
(***************************************************************************)
(* lib/posix/options: shared_memory_objects/shm.c and mapped_files/mmap.c: *)
(* shared memory objects in an unlocked list, found by the hash of their   *)
(* name, behind the descriptors of Zephyr's table, with an MMU.            *)
(***************************************************************************)
EXTENDS Integers, FiniteSets

CONSTANTS
    Callers,    \* threads
    Names,      \* the hashes of the names
    ShmObjs,    \* the heap's struct shm_obj
    Fds,        \* the descriptor table, but for 0, which mmap takes for no file
    Regions,    \* memory that k_mem_map can map
    IntMax,     \* INTPTR_MAX; size_t and off_t are as wide
    Kept,       \* the program keeps to the rules: calls do not overlap, an object
                \* is sized once and not unmapped while it exists
    NULL

VARIABLES
    shm,        \* the objects
    fdt,        \* the descriptors: object and offset
    pages,      \* the regions mapped
    maps,       \* ghost: the program's mappings of shared memory
    shmCall     \* shm_open between looking for the name and finishing

shmVars == <<shm, fdt, pages, maps, shmCall>>

FreeObj == [listed |-> FALSE, hash |-> NULL, size |-> 0, mem |-> NULL, unlinked |-> FALSE]
FreeFd == [state |-> "free", obj |-> NULL, off |-> 0]
NoOpen == [fd |-> NULL, obj |-> NULL, hash |-> NULL]

Init ==
    /\ shm = [o \in ShmObjs |-> FreeObj]
    /\ fdt = [f \in Fds |-> FreeFd]
    /\ pages = {} /\ maps = {}
    /\ shmCall = [c \in Callers |-> NoOpen]

Alone == Kept => \A c \in Callers : shmCall[c].fd = NULL
Idle(c) == shmCall[c].fd = NULL /\ Alone

shm_obj_find(h) ==
    IF \E o \in ShmObjs : shm[o].listed /\ shm[o].hash = h
      THEN CHOOSE o \in ShmObjs : shm[o].listed /\ shm[o].hash = h ELSE NULL

\* zvfs_fd_obj_refcount
RefCount(o) == Cardinality({f \in Fds : fdt[f].state = "open" /\ fdt[f].obj = o})

\* What is mapped, and what is listed, once the object o is removed.
shm_obj_remove(o) ==
    /\ pages' = pages \ (IF shm[o].size > 0 THEN {shm[o].mem} ELSE {})
    /\ shm' = [shm EXCEPT ![o] = FreeObj]

-----------------------------------------------------------------------------
(* shm_open: reserve a descriptor and look for the name; then finish. *)

\* EINVAL for flags or a name that make no sense, and EMFILE, change nothing.
\* A name that is unlinked and still open is EACCES; EEXIST; ENOENT.
OpenFind(c, h, creat, excl) == \E f \in Fds :
    /\ Idle(c)
    /\ fdt[f].state = "free"
    /\ LET o == shm_obj_find(h) IN
        /\ o # NULL => ~shm[o].unlinked /\ ~(creat /\ excl)
        /\ o = NULL => creat
        /\ shmCall' = [shmCall EXCEPT ![c] = [fd |-> f, obj |-> o, hash |-> h]]
    /\ fdt' = [fdt EXCEPT ![f].state = "reserved"]
    /\ UNCHANGED <<shm, pages, maps>>

\* (mutant) the name is not stored in a new object
OpenFinishNameless(c) ==
    LET call == shmCall[c] IN
    /\ call.fd # NULL
    /\ \E o \in IF call.obj # NULL THEN {call.obj} ELSE {x \in ShmObjs : ~shm[x].listed} :
         /\ shm' = IF call.obj # NULL THEN shm
                   ELSE [shm EXCEPT ![o] = [FreeObj EXCEPT !.listed = TRUE]]
         /\ fdt' = [fdt EXCEPT ![call.fd] = [state |-> "open", obj |-> o, off |-> 0]]
    /\ shmCall' = [shmCall EXCEPT ![c] = NoOpen]
    /\ UNCHANGED <<pages, maps>>

\* ENOSPC is not modelled: there is always room for an object.
OpenFinish(c) ==
    LET call == shmCall[c] IN
    /\ call.fd # NULL
    /\ \E o \in IF call.obj # NULL THEN {call.obj} ELSE {x \in ShmObjs : ~shm[x].listed} :
         /\ shm' = IF call.obj # NULL THEN shm
                   ELSE [shm EXCEPT ![o] = [FreeObj EXCEPT !.listed = TRUE, !.hash = call.hash]]
         /\ fdt' = [fdt EXCEPT ![call.fd] = [state |-> "open", obj |-> o, off |-> 0]]
    /\ shmCall' = [shmCall EXCEPT ![c] = NoOpen]
    /\ UNCHANGED <<pages, maps>>

\* ENOENT for a name that is not there or is unlinked already.
shm_unlink(c, h) ==
    /\ Idle(c)
    /\ LET o == shm_obj_find(h) IN
        /\ o # NULL /\ ~shm[o].unlinked
        /\ IF RefCount(o) = 0 THEN shm_obj_remove(o)
           ELSE shm' = [shm EXCEPT ![o].unlinked = TRUE] /\ UNCHANGED pages
    /\ UNCHANGED <<fdt, maps, shmCall>>

-----------------------------------------------------------------------------
(* What is done through a descriptor *)

On(c, f) == Idle(c) /\ fdt[f].state = "open"

\* zvfs_close calls shm_close for the last descriptor.
shm_close(c, f) ==
    /\ On(c, f)
    /\ fdt' = [fdt EXCEPT ![f] = FreeFd]
    /\ LET o == fdt[f].obj IN
        IF RefCount(o) = 1 /\ shm[o].unlinked THEN shm_obj_remove(o)
        ELSE UNCHANGED <<shm, pages>>
    /\ UNCHANGED <<maps, shmCall>>

\* fcntl with F_DUPFD, dup: zvfs_dup_entry_locked
Dup(c, f) == \E g \in Fds :
    /\ On(c, f) /\ fdt[g].state = "free"
    /\ fdt' = [fdt EXCEPT ![g] = fdt[f]]
    /\ UNCHANGED <<shm, pages, maps, shmCall>>

\* A length of 0 is EBUSY once there is a size, and else changes nothing; any
\* other length is mapped anew, ENOMEM when there is no memory.
shm_ftruncate(c, f, length) == \E r \in Regions \ pages :
    /\ On(c, f)
    /\ length > 0
    /\ Kept => shm[fdt[f].obj].size = 0
    /\ pages' = pages \cup {r}
    /\ shm' = [shm EXCEPT ![fdt[f].obj].mem = r, ![fdt[f].obj].size = length]
    /\ UNCHANGED <<fdt, maps, shmCall>>

\* Where shm_lseek goes, or -1: the comparison of an unsigned difference with a
\* signed offset is one of unsigned values.
Unsigned(n) == IF n < 0 THEN n + 2 * (IntMax + 1) ELSE n
Seek(o, cur, offset, whence) ==
    LET addend == CASE whence = "SEEK_SET" -> 0 [] whence = "SEEK_CUR" -> cur
                    [] whence = "SEEK_END" -> shm[o].size IN
    IF IntMax - addend < Unsigned(offset) \/ offset + addend < 0 THEN -1 ELSE offset + addend

\* Every descriptor of the object moves, also one that was opened on its own.
zvfs_fd_offset_set(f, at) ==
    fdt' = [g \in Fds |-> IF fdt[g].state = "open" /\ fdt[g].obj = fdt[f].obj
                            THEN [fdt[g] EXCEPT !.off = at] ELSE fdt[g]]

shm_lseek(c, f, offset, whence) ==
    /\ On(c, f)
    /\ LET at == Seek(fdt[f].obj, fdt[f].off, offset, whence) IN
        at >= 0 /\ zvfs_fd_offset_set(f, at)
    /\ UNCHANGED <<shm, pages, maps, shmCall>>

\* The bytes that shm_rw copies.
Copied(f, n) ==
    LET left == shm[fdt[f].obj].size - fdt[f].off IN
    IF left <= 0 THEN 0 ELSE IF n < left THEN n ELSE left

shm_rw(c, f, n) ==
    /\ On(c, f)
    /\ zvfs_fd_offset_set(f, fdt[f].off + Copied(f, n))
    /\ UNCHANGED <<shm, pages, maps, shmCall>>

\* mmap, through shm_mmap: EINVAL beyond the object's size, ENOMEM without memory.
mmap(c, f, len) ==
    /\ On(c, f)
    /\ len > 0 /\ len <= shm[fdt[f].obj].size
    /\ shm[fdt[f].obj].mem # NULL
    /\ maps' = maps \cup {shm[fdt[f].obj].mem}
    /\ UNCHANGED <<shm, fdt, pages, shmCall>>

\* munmap unmaps the memory itself, also the object's.
munmap(c, r) ==
    /\ Idle(c)
    /\ r \in maps
    /\ Kept => \A o \in ShmObjs : shm[o].mem # r
    /\ maps' = maps \ {r}
    /\ pages' = pages \ {r}
    /\ UNCHANGED <<shm, fdt, shmCall>>

-----------------------------------------------------------------------------
Next == \E c \in Callers :
    \/ \E h \in Names, creat, excl \in BOOLEAN : OpenFind(c, h, creat, excl)
    \/ OpenFinish(c)
    \/ \E h \in Names : shm_unlink(c, h)
    \/ \E f \in Fds : shm_close(c, f) \/ Dup(c, f)
    \/ \E f \in Fds, n \in 1..2 : shm_ftruncate(c, f, n) \/ shm_rw(c, f, n) \/ mmap(c, f, n)
    \/ \E f \in Fds, n \in {-1, 1, IntMax}, w \in {"SEEK_SET", "SEEK_CUR", "SEEK_END"} :
            shm_lseek(c, f, n, w)
    \/ \E r \in Regions : munmap(c, r)

Spec == Init /\ [][Next]_shmVars

-----------------------------------------------------------------------------
\* The objects are shared through a list without a lock, freed by the last of
\* unlink and close (l.251, 401), and own memory that only their removal gives
\* back: every open descriptor is of an object that is listed, a name finds one
\* object at most, an object that nobody can reach is gone, its memory is mapped
\* while it can be read or written and no other memory is, if calls do not
\* overlap and an object is sized once and not unmapped by its users.
KeptShmIsSound == Kept =>
    /\ \A f \in Fds : fdt[f].state = "open" =>
          shm[fdt[f].obj].listed /\ fdt[f].off \in 0..IntMax
    /\ \A o \in ShmObjs : shm[o].listed =>
          /\ shm[o].unlinked => RefCount(o) > 0
          /\ shm[o].size > 0 => shm[o].mem \in pages
          /\ shm_obj_find(shm[o].hash) = o /\ shm[o].hash # NULL
    /\ \A r \in pages : Cardinality({o \in ShmObjs : shm[o].mem = r /\ shm[o].size > 0}) = 1
=============================================================================
