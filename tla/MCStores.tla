------------------------------ MODULE MCStores ------------------------------
(***************************************************************************)
(* Parts of core/stores, and discovery through etcd, each on a small       *)
(* instance.  subject says which part a behaviour is about; the others     *)
(* keep their initial state.  The properties are those of StoresProofs and *)
(* DiscoveryProofs.                                                        *)
(***************************************************************************)
EXTENDS StoresProofs, DiscoveryProofs

VARIABLE subject

ASSUME RedisLockAssumption
ASSUME MS!MongoSessionsAssumption /\ KV!KvStoreAssumption
ASSUME CL!CleanerAssumption /\ RG!RegistryAssumption

all == <<subject, vars, kv, ms, bi, cl, rg, pb>>

Subjects == {"RedisLock", "KvStore", "MongoSessions", "BulkInserter", "Cleaner", "Registry",
             "Publisher"}

MCInit ==
    /\ subject \in Subjects
    /\ Init /\ KV!Init /\ MS!Init /\ BI!Init /\ CL!Init /\ RG!Init /\ PB!Init

\* A step of subject s leaves the other parts alone.
Of(s) ==
    /\ UNCHANGED subject
    /\ IF s = "RedisLock"     THEN TRUE ELSE UNCHANGED vars
    /\ IF s = "KvStore"       THEN TRUE ELSE UNCHANGED kv
    /\ IF s = "MongoSessions" THEN TRUE ELSE UNCHANGED ms
    /\ IF s = "BulkInserter"  THEN TRUE ELSE UNCHANGED bi
    /\ IF s = "Cleaner"       THEN TRUE ELSE UNCHANGED cl
    /\ IF s = "Registry"      THEN TRUE ELSE UNCHANGED rg
    /\ IF s = "Publisher"     THEN TRUE ELSE UNCHANGED pb

\* Keys and values of the registry are interchangeable: the first change may as well be this one.
FirstChange ==
    rg.log # <<>> => rg.log[1] = <<CHOOSE k \in Keys : TRUE, CHOOSE v \in Values : TRUE>>

MCNext ==
    \/ subject = "RedisLock"     /\ Next     /\ Of("RedisLock")
    \/ subject = "KvStore"       /\ KV!Next  /\ Of("KvStore")
    \/ subject = "MongoSessions" /\ MS!Next  /\ Of("MongoSessions")
    \/ subject = "BulkInserter"  /\ BI!Next  /\ Of("BulkInserter")
    \/ subject = "Cleaner"       /\ CL!Next  /\ Of("Cleaner")
    \/ subject = "Registry"      /\ RG!Next  /\ FirstChange' /\ Of("Registry")
    \/ subject = "Publisher"     /\ PB!Next  /\ Of("Publisher")

MCSpec == MCInit /\ [][MCNext]_all
-----------------------------------------------------------------------------
\* The type invariant of the part.
MCTypeOK ==
    CASE subject = "RedisLock"     -> TypeOK
      [] subject = "KvStore"       -> KV!TypeOK
      [] subject = "MongoSessions" -> MS!TypeOK
      [] subject = "BulkInserter"  -> BI!TypeOK
      [] subject = "Cleaner"       -> CL!TypeOK
      [] subject = "Registry"      -> RG!TypeOK
      [] subject = "Publisher"     -> PB!TypeOK
=============================================================================
