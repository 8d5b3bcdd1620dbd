---------------------------------- MODULE Shmem ----------------------------------
(***************************************************************************)
(* Shared memory segments (ipc/shmem.c) under one name: processes create,  *)
(* attach to, detach from and destroy them, any system call may fail, and  *)
(* a process may die anywhere.  A step is one system call or one group of  *)
(* header stores another process can see on its own.                       *)
(***************************************************************************)
EXTENDS Integers, Sequences, FiniteSets

CONSTANTS Procs,
          Size, Page,    \* size asked of bt_shmem_create; 4096
          HeaderSize,    \* sizeof(bt_shmem_header_t)
          MaxSegs,       \* bound: segments created
          Crashes        \* bound: processes that die

ASSUME ShmemAssumption == /\ {Page, HeaderSize} \subseteq Nat \ {0} /\ Size \in Nat
                          /\ MaxSegs \in Nat /\ Crashes \in Nat

VARIABLES segs,     \* the kernel's segments: their size and how far the header is
          name,     \* the segment shm_open(name) finds, 0 if none
          proc,     \* per process: pc, fd, map and size of it, owner flag
          crashes,  \* processes that died so far
          orphans   \* history: segments whose owner died or detached

shmemVars == <<segs, name, proc, crashes, orphans>>

Total == ((Size + Page - 1) \div Page) * Page + HeaderSize

Fresh == [pc |-> "none", fd |-> 0, map |-> 0, size |-> 0, owner |-> FALSE]

ShmemInit == /\ segs = <<>> /\ name = 0 /\ proc = [p \in Procs |-> Fresh]
             /\ crashes = 0 /\ orphans = {}

Creating == {"truncate", "map", "alloc", "magic", "masks"}
At(p, step) == proc[p].pc = step
Segment(p) == proc[p].fd
--------------------------------------------------------------------------------
(* bt_shmem_create *)

\* shm_open with O_CREAT and O_EXCL; it fails, without effect, when the name is taken
CreateOpen(p) == /\ At(p, "none") /\ name = 0 /\ Len(segs) < MaxSegs
                 /\ segs' = Append(segs, [size |-> 0, header |-> "zero"])
                 /\ name' = Len(segs')
                 /\ proc' = [proc EXCEPT ![p].pc = "truncate", ![p].fd = Len(segs')]
                 /\ UNCHANGED <<crashes, orphans>>

\* mutant: the size is not rounded up to a page
CreateTruncate_Raw(p) == /\ At(p, "truncate")
                         /\ segs' = [segs EXCEPT ![Segment(p)].size = Size + HeaderSize]
                         /\ proc' = [proc EXCEPT ![p].pc = "map"]
                         /\ UNCHANGED <<name, crashes, orphans>>

CreateTruncate(p) == /\ At(p, "truncate")
                     /\ segs' = [segs EXCEPT ![Segment(p)].size = Total]
                     /\ proc' = [proc EXCEPT ![p].pc = "map"]
                     /\ UNCHANGED <<name, crashes, orphans>>

CreateMap(p) == /\ At(p, "map")
                /\ proc' = [proc EXCEPT ![p].pc = "alloc", ![p].map = Segment(p), ![p].size = Total]
                /\ UNCHANGED <<segs, name, crashes, orphans>>

CreateAlloc(p) == /\ At(p, "alloc")
                  /\ proc' = [proc EXCEPT ![p].pc = "magic", ![p].owner = TRUE]
                  /\ UNCHANGED <<segs, name, crashes, orphans>>

\* mutant: the failing path leaves the name behind
Unlinked_Kept == name

Unlinked == 0

\* ftruncate, mmap or calloc failed: unmap what is mapped, close, unlink (only
\* the last is seen by others)
CreateFails(p) == /\ proc[p].pc \in {"truncate", "map", "alloc"}
                  /\ name' = Unlinked
                  /\ proc' = [proc EXCEPT ![p] = Fresh]
                  /\ UNCHANGED <<segs, crashes, orphans>>

\* the header is cleared, then gets magic and version, then the masks and the rest
CreateMagic(p) == /\ At(p, "magic")
                  /\ segs' = [segs EXCEPT ![Segment(p)].header = "magic"]
                  /\ proc' = [proc EXCEPT ![p].pc = "masks"]
                  /\ UNCHANGED <<name, crashes, orphans>>

CreateMasks(p) == /\ At(p, "masks")
                  /\ segs' = [segs EXCEPT ![Segment(p)].header = "ready"]
                  /\ proc' = [proc EXCEPT ![p].pc = "open"]
                  /\ UNCHANGED <<name, crashes, orphans>>
--------------------------------------------------------------------------------
(* bt_shmem_attach *)

AttachOpen(p) == /\ At(p, "none") /\ name # 0
                 /\ proc' = [proc EXCEPT ![p].pc = "stat", ![p].fd = name]
                 /\ UNCHANGED <<segs, name, crashes, orphans>>

AttachStat(p) == /\ At(p, "stat")
                 /\ proc' = [proc EXCEPT ![p].pc = "attach", ![p].size = segs[Segment(p)].size]
                 /\ UNCHANGED <<segs, name, crashes, orphans>>

\* mutant: an empty segment can be mapped
Mappable_Any(size) == TRUE

\* mmap refuses a length of zero
Mappable(size) == size > 0

AttachMap(p) == /\ At(p, "attach") /\ Mappable(proc[p].size)
                /\ proc' = [proc EXCEPT ![p].pc = "check", ![p].map = Segment(p)]
                /\ UNCHANGED <<segs, name, crashes, orphans>>

AttachCheck(p) == /\ At(p, "check") /\ segs[Segment(p)].header # "zero"
                  /\ proc' = [proc EXCEPT ![p].pc = "handle"]
                  /\ UNCHANGED <<segs, name, crashes, orphans>>

\* mutant: an attached handle owns the name
AttachDone_Owner(p) == /\ At(p, "handle")
                       /\ proc' = [proc EXCEPT ![p].pc = "open", ![p].owner = TRUE]
                       /\ UNCHANGED <<segs, name, crashes, orphans>>

AttachDone(p) == /\ At(p, "handle")
                 /\ proc' = [proc EXCEPT ![p].pc = "open", ![p].owner = FALSE]
                 /\ UNCHANGED <<segs, name, crashes, orphans>>

\* mutant: a wrong magic leaves the segment mapped
Dropped_Mapped(p) == [Fresh EXCEPT !.map = proc[p].map]

\* what the failing paths of bt_shmem_attach leave of the handle
Dropped(p) == Fresh

\* fstat, mmap or calloc failed, or the magic is wrong: the name is left alone
AttachFails(p) == /\ proc[p].pc \in {"stat", "attach", "check", "handle"}
                  /\ proc' = [proc EXCEPT ![p] = Dropped(p)]
                  /\ UNCHANGED <<segs, name, crashes, orphans>>
--------------------------------------------------------------------------------
\* the segment nobody will unlink once p is gone
Left(p) == IF proc[p].owner \/ proc[p].pc \in Creating \cup {"unlink"} THEN {name} ELSE {}

Detach(p) == /\ At(p, "open")
             /\ proc' = [proc EXCEPT ![p] = Fresh]
             /\ orphans' = orphans \cup Left(p)
             /\ UNCHANGED <<segs, name, crashes>>

\* bt_shmem_destroy: unmap and close, then the owner unlinks the name
Destroy(p) == /\ At(p, "open")
              /\ proc' = [proc EXCEPT ![p] = [Fresh EXCEPT !.pc = IF proc[p].owner THEN "unlink"
                                                                  ELSE "none"]]
              /\ UNCHANGED <<segs, name, crashes, orphans>>

Unlink(p) == /\ At(p, "unlink")
             /\ name' = 0
             /\ proc' = [proc EXCEPT ![p] = Fresh]
             /\ UNCHANGED <<segs, crashes, orphans>>

\* the process dies: the kernel closes and unmaps, the name stays
Crash(p) == /\ proc[p] # Fresh /\ crashes < Crashes
            /\ proc' = [proc EXCEPT ![p] = Fresh]
            /\ crashes' = crashes + 1
            /\ orphans' = orphans \cup Left(p)
            /\ UNCHANGED <<segs, name>>

Create(p) == \/ CreateOpen(p) \/ CreateTruncate(p) \/ CreateMap(p) \/ CreateAlloc(p)
             \/ CreateFails(p) \/ CreateMagic(p) \/ CreateMasks(p)

Attach(p) == \/ AttachOpen(p) \/ AttachStat(p) \/ AttachMap(p) \/ AttachCheck(p)
             \/ AttachDone(p) \/ AttachFails(p)

ShmemNext == \E p \in Procs : \/ Create(p) \/ Attach(p) \/ Detach(p) \/ Destroy(p) \/ Unlink(p)
                              \/ Crash(p)

ShmemSpec == ShmemInit /\ [][ShmemNext]_shmemVars
--------------------------------------------------------------------------------
\* Type invariant of the segments and the handles.
ShmemTypeOK == /\ segs \in Seq([size : {0, Total}, header : {"zero", "magic", "ready"}])
               /\ name \in 0 .. Len(segs) /\ orphans \subseteq 1 .. Len(segs) /\ crashes \in 0 .. Crashes
               /\ proc \in [Procs -> [pc : Creating \cup {"none", "stat", "attach", "check", "handle",
                                                          "open", "unlink"},
                                      fd : 0 .. Len(segs), map : 0 .. Len(segs),
                                      size : {0, Total}, owner : BOOLEAN]]

\* A process that will unlink the name (an owner, or a create that may fail)
\* created the segment now under it: shm_unlink(name) never removes a segment
\* of another process, whatever was attached, destroyed or died in between.
UnlinksItsOwn == \A p \in Procs :
  /\ proc[p].owner \/ proc[p].pc \in Creating =>
       /\ name = Segment(p)
       /\ \A q \in Procs \ {p} : ~proc[q].owner /\ proc[q].pc \notin Creating \cup {"unlink"}
  /\ At(p, "unlink") => name # 0 /\ \A q \in Procs \ {p} : ~proc[q].owner /\ ~At(q, "unlink")

\* A process without a handle holds no descriptor and no mapping: every failing
\* path gives back what the call took.
NothingHeld == \A p \in Procs : At(p, "none") => proc[p] = Fresh

\* The name is taken only while its creator is at work or holds its handle, or
\* after that process died or detached as owner: a failing bt_shmem_create and
\* bt_shmem_destroy leave it free for the next bt_shmem_create.
NameHasOwner == name # 0 => \/ name \in orphans
                            \/ \E p \in Procs : proc[p].owner \/ proc[p].pc \in Creating \cup {"unlink"}

\* An open handle maps the whole of a segment that has its magic.
MapsWhole == \A p \in Procs : At(p, "open") =>
               /\ proc[p].map = Segment(p) /\ proc[p].size = segs[Segment(p)].size
               /\ proc[p].size = Total /\ segs[Segment(p)].header # "zero"

Held == {"alloc", "magic", "masks", "check", "handle", "open"}

\* What a process knows of its segment between the system calls of
\* bt_shmem_create and bt_shmem_attach.
StepsInv == \A p \in Procs :
  /\ proc[p].pc \notin {"none", "unlink"} => Segment(p) \in 1 .. Len(segs)
  /\ proc[p].pc \in {"map"} \cup Held => segs[Segment(p)].size = Total
  /\ proc[p].pc \in Held => proc[p].map = Segment(p) /\ proc[p].size = Total
  /\ At(p, "attach") /\ proc[p].size # 0 => segs[Segment(p)].size = Total
  /\ proc[p].pc \in {"handle", "open"} => segs[Segment(p)].header # "zero"
  /\ proc[p].owner => proc[p].pc \in {"magic", "masks", "open"}
  /\ proc[p].pc \in {"magic", "masks"} => proc[p].owner

\* Nothing is left behind by a call that fails or ends: no descriptor, no mapping
\* and no name without an owner; and a call that succeeds leaves a whole handle.
HandlesInv == ShmemTypeOK /\ NothingHeld /\ NameHasOwner /\ StepsInv /\ MapsWhole
================================================================================
