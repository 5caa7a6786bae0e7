-------------------------- MODULE StorageVolumes --------------------------
(***************************************************************************)
(* application/storage_management.go for volumes: the size a volume is     *)
(* created with or expanded to, worked out from a storage inventory, and   *)
(* the plan and apply around it.  The inventory is DSM's own report and    *)
(* nothing makes its numbers add up.                                       *)
(*                                                                         *)
(* One pool and one volume of it; the rest of the pool is in its free      *)
(* bytes.  Bytes are unsigned numbers up to WordMax.                       *)
(***************************************************************************)
EXTENDS Integers

CONSTANTS
    Gib,          \* 1 << 30
    MinimumSize,  \* volumeMinimumBytes
    WordMax,      \* ^uint64(0)
    Capacity,     \* the numbers an inventory reports
    Limit,        \* the file system limits it reports; 0 is "none"
    AskedSize,    \* the sizes callers ask for; 0 is the maximum policy
    MaxElsewhere  \* changes made in DSM itself

ASSUME StorageAssumption ==
    /\ {Gib, MinimumSize, WordMax, MaxElsewhere} \subseteq Nat
    /\ Gib > 0 /\ MinimumSize > 0
    /\ Capacity \union Limit \union AskedSize \subseteq 0..WordMax

VARIABLES
    volumes,     \* storage.State: the pool and its volume
    job,         \* the plan a caller holds and how far its apply has come
    elsewhere    \* changes made in DSM itself; bounded

storageVars == <<volumes, job, elsewhere>>

VolumeRequest ==
    [action : {"create", "update"}, size : AskedSize]
        \union [action : {"delete"}, size : {0}]

\* allocated is 0 if there is no volume.
VolumeInventory ==
    [layout : {"single", "multiple"}, size : Capacity, available : 0..WordMax,
     allocated : 0..WordMax, volumeLimit : Limit, limit : Limit,
     status : {"normal", "actioning", "crashed"}]

NoJob == [at |-> "idle"]

-----------------------------------------------------------------------------
(* What a change would be. *)

\* Fault: a pool takes as many volumes as its layout allows.
CanCreateFull(v) == v.layout = "multiple" \/ v.allocated = 0

\* deriveVolumeActionability: a pool that is in order takes a new volume.  Of
\* a single-volume pool, nothing is used.
CanCreateVolume(v) ==
    IF v.layout = "multiple" THEN v.available > MinimumSize ELSE v.allocated = 0

\* The volume can grow.  DSM itself says so of a single-volume pool.
CanExpand(v) ==
    v.status = "normal" /\ (v.layout = "multiple" => v.available > Gib)

minimumPositive(value, limit) ==
    IF limit > 0 /\ (value = 0 \/ limit < value) THEN limit ELSE value

\* checkedAddBytes succeeds.
NoOverflow(left, right) == WordMax - left >= right

\* The size in bytes, or 0 for an error.
resolveVolumeCapacity(size, minimum, maximum) ==
    LET most == (maximum \div Gib) * Gib
        wanted == IF size = 0 THEN most ELSE size
    IN  IF /\ minimum # 0 /\ maximum # 0
           /\ wanted % Gib = 0 /\ minimum <= wanted /\ wanted <= most
        THEN wanted ELSE 0

CreateSize(v, size) ==
    IF v.allocated = 0 /\ CanCreateVolume(v) /\ (v.layout = "single" => size = 0)
    THEN resolveVolumeCapacity(size, MinimumSize,
             minimumPositive(IF v.layout = "single" THEN v.size ELSE v.available, v.limit))
    ELSE 0

ExpandSize(v, size) ==
    IF /\ v.allocated # 0 /\ (size # 0 => size > v.allocated)
       /\ CanExpand(v) /\ (v.layout = "single" => size = 0)
       /\ NoOverflow(v.allocated, v.available) /\ NoOverflow(v.allocated, 1)
    THEN resolveVolumeCapacity(size, v.allocated + 1,
             minimumPositive(minimumPositive(v.allocated + v.available, v.volumeLimit), v.limit))
    ELSE 0

\* BuildStoragePlan for a volume: ResolvedCapacityBytes, 0 for a deletion.
Resolved(v, r) ==
    CASE r.action = "create" -> CreateSize(v, r.size)
      [] r.action = "update" -> ExpandSize(v, r.size)
      [] OTHER -> 0

Plannable(v, r) ==
    IF r.action = "delete"
    THEN v.allocated # 0 /\ v.status = "normal"
    ELSE Resolved(v, r) # 0

-----------------------------------------------------------------------------
(* Plan and apply. *)

PlanVolumeChange(r) ==
    /\ job = NoJob
    /\ Plannable(volumes, r)
    /\ job' = [at |-> "planned", request |-> r, shown |-> volumes,
               resolved |-> Resolved(volumes, r), checked |-> 0]
    /\ UNCHANGED <<volumes, elsewhere>>

\* The plan made again is the plan: the fingerprints of the topology and of
\* the pool's and the volume's safety state have every number in them.
StillPlanned(v, j) ==
    /\ Plannable(v, j.request)
    /\ Resolved(v, j.request) = j.resolved
    /\ v = j.shown

\* ApplyStoragePlan up to the write.
CheckStoragePlan ==
    /\ job.at = "planned"
    /\ job' = IF StillPlanned(volumes, job)
              THEN [job EXCEPT !.at = "checked", !.checked = elsewhere]
              ELSE NoJob
    /\ UNCHANGED <<volumes, elsewhere>>

\* What the change makes of the volume: a single-volume pool is filled
\* whatever was resolved, as its requests carry no size.
NewSize(v, r, resolved) ==
    CASE r.action = "delete" -> 0
      [] v.layout = "single" -> v.size
      [] OTHER -> resolved

Bytes(n) == IF n < 0 THEN 0 ELSE IF n > WordMax THEN WordMax ELSE n

Resized(v, n) ==
    [v EXCEPT !.allocated = n, !.available = Bytes(v.available + v.allocated - n)]

\* volumemutation.Execute: DSM refuses, or does what it was asked, now or as a
\* task that goes on.
SendVolumeChange ==
    /\ job.at = "checked"
    /\ \/ job' = NoJob /\ UNCHANGED volumes
       \/ /\ job.request.action = "create" <=> volumes.allocated = 0
          /\ LET done == Resized(volumes, NewSize(volumes, job.request, job.resolved))
             IN volumes' \in {done, [volumes EXCEPT !.status = "actioning"]}
          /\ job' = [job EXCEPT !.at = "sent"]
    /\ UNCHANGED elsewhere

\* verifyStorageVolumePostcondition: an expansion may still be under way.
Verified(v, j) ==
    CASE j.request.action = "delete" -> v.allocated = 0
      [] v.status = "crashed" \/ v.allocated = 0 -> FALSE
      [] j.request.action = "create" -> v.layout = "multiple" => v.allocated = j.resolved
      [] v.status = "actioning" -> TRUE
      [] v.layout = "single" -> v.allocated > j.shown.allocated
      [] OTHER -> v.allocated >= j.resolved

VerifyVolume ==
    /\ job.at = "sent"
    /\ job' = IF Verified(volumes, job) THEN [job EXCEPT !.at = "applied"] ELSE NoJob
    /\ UNCHANGED <<volumes, elsewhere>>

\* Administrators of DSM resize the volume, make another, or take it offline.
Elsewhere ==
    /\ elsewhere < MaxElsewhere /\ elsewhere' = elsewhere + 1
    /\ \/ \E n \in Capacity : volumes' = Resized(volumes, n)
       \/ \E s \in {"normal", "crashed"} : volumes' = [volumes EXCEPT !.status = s]
    /\ UNCHANGED job

StorageInit ==
    /\ volumes \in [layout : {"single", "multiple"}, size : Capacity,
                    available : Capacity, allocated : Capacity,
                    volumeLimit : Limit, limit : Limit,
                    status : {"normal"}]
    /\ job = NoJob /\ elsewhere = 0

StorageNext ==
    \/ job = NoJob /\ \E r \in VolumeRequest : PlanVolumeChange(r)
    \/ CheckStoragePlan \/ SendVolumeChange \/ VerifyVolume \/ Elsewhere

StorageSpec == StorageInit /\ [][StorageNext]_storageVars

-----------------------------------------------------------------------------
(* Correctness *)

\* Every number is one of 64 bits, and a job is in one of the places of
\* ApplyStoragePlan with a plan that was possible when it was shown.
StorageTypeOK ==
    /\ volumes \in VolumeInventory
    /\ elsewhere \in 0..MaxElsewhere
    /\ job # NoJob =>
        /\ job.at \in {"planned", "checked", "sent", "applied"}
        /\ job.resolved \in 0..WordMax
        /\ Plannable(job.shown, job.request)

\* What a volume may be: in whole GiB, larger than it was or than DSM's
\* minimum, within the file system limits, and no more than its own bytes and
\* the free bytes of its pool.
MayBe(v, action, n) ==
    /\ n % Gib = 0
    /\ IF action = "update" THEN n > v.allocated ELSE n >= MinimumSize
    /\ n <= v.allocated + v.available
    /\ \A l \in {v.limit} \union (IF action = "update" THEN {v.volumeLimit} ELSE {}) :
         l # 0 => n <= l

\* The size DSM is asked for is one the volume may have: the size the caller
\* named, or under the maximum policy the largest.  In the code a limit of 0
\* means no limit and a free capacity of 0 takes the place of the limit
\* (minimumPositive), which is harmless only together with
\* deriveVolumeActionability; rounding, limits and overflow meet here.
CapacitySound ==
    job # NoJob /\ job.request.action # "delete" /\ job.shown.layout = "multiple" =>
        /\ MayBe(job.shown, job.request.action, job.resolved)
        /\ IF job.request.size # 0
           THEN job.resolved = job.request.size
           ELSE \A n \in 0..WordMax :
                  MayBe(job.shown, job.request.action, n) => n <= job.resolved

\* A change, deletion by force included, meets the volume as the approved plan
\* showed it, unless DSM's own users act between the last read and the write.
VolumeAsShown ==
    job.at = "checked" /\ job.checked = elsewhere => volumes = job.shown

\* What DSM is asked to do to a volume is possible and is what was approved.
StorageSafe == CapacitySound /\ VolumeAsShown

=============================================================================
