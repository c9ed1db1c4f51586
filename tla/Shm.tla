-------------------------------- MODULE Shm ---------------------------------
(***************************************************************************)
(* Shared memory objects (kernel/src/mem/shm.c): a table of reference      *)
(* counted objects.  Mapping takes a reference, closing drops one, and     *)
(* nothing ever unmaps, so a process keeps what it mapped for its life.    *)
(* The frames of an object go back to the allocator with its last          *)
(* reference.  All three calls are system calls, which nothing preempts.   *)
(***************************************************************************)
EXTENDS Integers, FiniteSetsExt

CONSTANTS Process,          \* processes that map objects
          SHM_MAX_OBJECTS

ASSUME ShmAssumption == SHM_MAX_OBJECTS \in Nat

VARIABLES shm_objs,     \* the table; id 0 marks a free entry
          shm_next_id,
          mapped        \* ids whose frames are in each process's page tables

shm_vars == <<shm_objs, shm_next_id, mapped>>

Entries == 1..SHM_MAX_OBJECTS
FreeEntry == [id |-> 0, refcount |-> 0]

ShmInit == /\ shm_objs = [i \in Entries |-> FreeEntry]
           /\ shm_next_id = 1
           /\ mapped = [p \in Process |-> {}]

Live(id) == id # 0 /\ \E i \in Entries : shm_objs[i].id = id

shm_find(id) == Min({i \in Entries : shm_objs[i].id = id})

\* Some entry is free (shm_find(0) is then shm_alloc_slot).
HasEntry == \E i \in Entries : shm_objs[i].id = 0

\* The frames are allocated here; what fails leaves the table as it was.
shm_create == /\ HasEntry
              /\ shm_objs' = [shm_objs EXCEPT ![shm_find(0)] = [id |-> shm_next_id, refcount |-> 1]]
              /\ shm_next_id' = shm_next_id + 1
              /\ UNCHANGED mapped

\* A plausible bug, used to test the properties.
MapWithoutReference(p, id) == /\ Live(id)
                              /\ mapped' = [mapped EXCEPT ![p] = @ \cup {id}]
                              /\ UNCHANGED <<shm_objs, shm_next_id>>

shm_map(p, id) == /\ Live(id)
                  /\ shm_objs' = [shm_objs EXCEPT ![shm_find(id)].refcount = @ + 1]
                  /\ mapped' = [mapped EXCEPT ![p] = @ \cup {id}]
                  /\ UNCHANGED shm_next_id

\* The last reference frees the frames and the entry.
shm_close(id) == /\ shm_objs' = IF ~Live(id) THEN shm_objs
                                ELSE IF shm_objs[shm_find(id)].refcount = 1
                                THEN [shm_objs EXCEPT ![shm_find(id)] = FreeEntry]
                                ELSE [shm_objs EXCEPT ![shm_find(id)].refcount = @ - 1]
                 /\ UNCHANGED <<shm_next_id, mapped>>
=============================================================================
