---------------------------- MODULE RemoteStore ----------------------------
(***************************************************************************)
(* The durable store in an S3 bucket (s3_storage.py).  A backup has one    *)
(* key, every call is a network request that may fail before or after it   *)
(* took effect, and an object is good when its bytes have the digest.      *)
(*                                                                         *)
(* `bucket` holds per key nothing, the "whole" artifact, "odd" bytes where *)
(* the artifact was, or an "other" artifact that an earlier attempt left.  *)
(***************************************************************************)
EXTENDS Naturals, FiniteSets

CONSTANTS Keys, Clients, Quiet,
          MostOutages    \* bound on failing requests and damaged objects

ASSUME RemoteStoreAssumption == MostOutages \in Nat

VARIABLES bucket, staged, session, owned, proven, known, condemned, erased,
          outages

remoteVars == <<bucket, staged, session, owned, proven, known, condemned,
                erased, outages>>

RemoteInit ==
  /\ bucket \in [Keys -> {"none", "other"}]
  /\ staged = Keys
  /\ session = [c \in Clients |-> Quiet]
  /\ owned = {} /\ proven = {} /\ known = {} /\ condemned = {} /\ erased = {}
  /\ outages = 0

Outage == outages < MostOutages /\ outages' = outages + 1

In(c, op, step) == /\ session[c] # Quiet
                   /\ session[c].op = op /\ session[c].step = step
Opens(c, k, op, step) == session' = [session EXCEPT ![c] =
    [op |-> op, key |-> k, step |-> step, got |-> "none"]]
Steps(c, step) == session' = [session EXCEPT ![c].step = step]
Ends(c) == session' = [session EXCEPT ![c] = Quiet]

(* _verify_reference: the head says the digest, the stream has it.         *)
Verified(k) == bucket[k] = "whole"

Told == <<owned, proven, known, condemned, erased>>

---------------------------------------------------------------------------
(* store_encrypted_artifact.  A backup is stored while it runs, and only   *)
(* finished backups are ever deleted.                                      *)

BeginUpload(c, k) ==
  /\ session[c] = Quiet /\ k \notin condemned
  /\ Opens(c, k, "store", "head")
  /\ UNCHANGED <<bucket, staged, Told, outages>>

(* An object that is there already is taken over when it is this artifact. *)
UploadHead(c, k) ==
  /\ In(c, "store", "head")
  /\ IF bucket[k] = "none" THEN Steps(c, "put")
     ELSE IF Verified(k) THEN Steps(c, "verify") ELSE Ends(c)
  /\ UNCHANGED <<bucket, staged, Told, outages>>

PutObject(c, k) ==
  /\ In(c, "store", "put")
  /\ \/ k \in staged /\ bucket' = [bucket EXCEPT ![k] = "whole"]
        /\ Steps(c, "verify") /\ UNCHANGED outages
     \/ k \notin staged /\ Ends(c) /\ UNCHANGED <<bucket, outages>>
     \/ Outage /\ Ends(c) /\ k \in staged
        /\ \E left \in {bucket[k], "whole"} : bucket' = [bucket EXCEPT ![k] = left]
  /\ UNCHANGED <<staged, Told>>

UploadVerify(c, k) ==
  /\ In(c, "store", "verify")
  /\ IF Verified(k) THEN owned' = owned \cup {k} /\ Steps(c, "staging")
                    ELSE UNCHANGED owned /\ Ends(c)
  /\ UNCHANGED <<bucket, staged, proven, known, condemned, erased, outages>>

UploadReply(c, k) ==
  /\ In(c, "store", "staging")
  /\ staged' \in {staged, staged \ {k}}
  /\ known' = known \cup {k}
  /\ Ends(c)
  /\ UNCHANGED <<bucket, owned, proven, condemned, erased, outages>>

Upload(c) == session[c] # Quiet /\
  LET k == session[c].key
  IN UploadHead(c, k) \/ PutObject(c, k) \/ UploadVerify(c, k) \/ UploadReply(c, k)

---------------------------------------------------------------------------
(* delete_stored_object, confirm_stored_object_absent                      *)

BeginErase(c, k) ==
  /\ session[c] = Quiet /\ k \in known
  /\ \A d \in Clients : session[d] # Quiet => session[d].op # "store"
  /\ condemned' = condemned \cup {k}
  /\ Opens(c, k, "delete", "delete")
  /\ UNCHANGED <<bucket, staged, owned, proven, known, erased, outages>>

DeleteObject(c, k) ==
  /\ In(c, "delete", "delete")
  /\ \/ bucket' = [bucket EXCEPT ![k] = "none"] /\ Steps(c, "confirm")
        /\ UNCHANGED outages
     \/ Outage /\ Ends(c)
        /\ \E left \in {bucket[k], "none"} : bucket' = [bucket EXCEPT ![k] = left]
  /\ UNCHANGED <<staged, Told>>

ConfirmErased(c, k) ==
  /\ In(c, "delete", "confirm")
  /\ IF bucket[k] = "none" THEN erased' = erased \cup {k} /\ owned' = owned \ {k}
                           ELSE UNCHANGED <<erased, owned>>
  /\ Ends(c)
  /\ UNCHANGED <<bucket, staged, proven, known, condemned, outages>>

Erase(c) == session[c] # Quiet /\
  LET k == session[c].key IN DeleteObject(c, k) \/ ConfirmErased(c, k)

---------------------------------------------------------------------------
(* reattest_stored_object needs the bytes and no memory; open hands out a  *)
(* reader that compares count and digest when it is closed.                *)

Prove(k) == /\ k \in known /\ Verified(k)
            /\ proven' = proven \cup {k}
            /\ UNCHANGED <<bucket, staged, session, owned, known, condemned,
                           erased, outages>>

BeginFetch(c, k) ==
  /\ session[c] = Quiet
  /\ k \in owned \/ (k \in proven /\ Verified(k))
  /\ Opens(c, k, "read", "get")
  /\ UNCHANGED <<bucket, staged, Told, outages>>

Fetch(c) ==
  /\ \/ In(c, "read", "get") /\ IF bucket[session[c].key] = "none" THEN Ends(c)
        ELSE session' = [session EXCEPT ![c].step = "close",
                                        ![c].got = bucket[session[c].key]]
     \/ In(c, "read", "close")
        /\ IF session[c].got = "whole" THEN Steps(c, "good") ELSE Ends(c)
     \/ In(c, "read", "good") /\ Ends(c)
  /\ UNCHANGED <<bucket, staged, Told, outages>>

---------------------------------------------------------------------------
LosesMemory ==
  /\ Outage
  /\ owned' = {} /\ proven' = {} /\ staged' = {}
  /\ session' = [c \in Clients |-> Quiet]
  /\ UNCHANGED <<bucket, known, condemned, erased>>

Rots(k) ==
  /\ Outage
  /\ bucket[k] = "whole" /\ bucket' = [bucket EXCEPT ![k] = "odd"]
  /\ UNCHANGED <<staged, session, Told>>

RemoteNext ==
  \/ \E c \in Clients :
       \/ Upload(c) \/ Erase(c) \/ Fetch(c)
       \/ \E k \in Keys : BeginUpload(c, k) \/ BeginErase(c, k) \/ BeginFetch(c, k)
  \/ \E k \in Keys : Prove(k) \/ Rots(k)
  \/ LosesMemory

RemoteSpec == RemoteInit /\ [][RemoteNext]_remoteVars

(* The bucket keeps the promises of a durable store although requests fail *)
(* halfway and are repeated: a key is handed out for the artifact only,    *)
(* stays until its deletion is asked for, and is gone when that is said.   *)
(* An artifact that another attempt left is not taken for this one.        *)
Remote == INSTANCE DurableContract
  WITH Objects <- Keys, told <- known, asked <- condemned, gone <- erased,
       kept <- [k \in Keys |-> CASE bucket[k] = "none" -> "absent"
                                 [] bucket[k] = "other" -> "partial"
                                 [] OTHER -> "whole"]
RemoteKeepsPromises == [][Remote!ContractNext]_(Remote!contractVars)
=============================================================================
