----------------------------- MODULE LocalStore -----------------------------
(***************************************************************************)
(* The local durable store (durable_storage.py): a private directory per   *)
(* object, published by a hard link, and a registry in the memory of the   *)
(* process (_stored, _by_source, _deleted, _reattested) under one lock     *)
(* that is held for single steps only.                                     *)
(*                                                                         *)
(* `disk` is the set of names of an object's directory and `bytes` its     *)
(* content; `evidence` the registry, where "unlinked" is evidence without  *)
(* a file identity; `call` what every thread is doing.  Several objects    *)
(* may come from one sealed artifact (Of).                                 *)
(***************************************************************************)
EXTENDS Naturals, FiniteSets

CONSTANTS Objects, Backups, Threads,
          NoCall,
          Of,            \* the backup an object would be stored for
          MostFaults     \* bound on failures, damage and crashes

(* What a thread is doing: the step it comes to next in the operation on an *)
(* object, and the evidence, or the content, it has seen.                   *)
Call == [op : {"store", "delete", "read"}, of : Objects,
         step : {"mkdir", "copy", "link", "drop", "register", "staging", "undo",
                 "look", "unlink", "mark", "rmdir", "forget", "deleted", "refused",
                 "open", "close", "good"},
         seen : {"none", "stored", "unlinked", "deleted", "whole", "odd"}]

ASSUME LocalStoreAssumption == /\ Of \in [Objects -> Backups]
                               /\ MostFaults \in Nat
                               /\ NoCall \notin Call

VARIABLES disk, bytes, evidence, attested, sealed, call, told, asked, gone,
          faults

storeVars == <<disk, bytes, evidence, attested, sealed, call, told, asked,
               gone, faults>>

Exact == {"dir", "file"}
Registered == {"stored", "unlinked"}

(* _validate_path: the directory holds the one file, with the digest.      *)
PathHolds(o) == disk[o] = Exact /\ bytes[o] = "whole"
StoredHolds(o) == evidence[o] = "stored" /\ PathHolds(o)

Fault == faults < MostFaults /\ faults' = faults + 1
NoFault == UNCHANGED faults

Calling(w, op, step) == /\ call[w] # NoCall
                        /\ call[w].op = op /\ call[w].step = step
Enter(w, o, op, step) == call' = [call EXCEPT ![w] =
    [op |-> op, of |-> o, step |-> step, seen |-> evidence[o]]]
Go(w, step) == call' = [call EXCEPT ![w].step = step]
Saw(w, step, seen) == call' = [call EXCEPT ![w].step = step, ![w].seen = seen]
Leave(w) == call' = [call EXCEPT ![w] = NoCall]

Holding(o, names) == disk' = [disk EXCEPT ![o] = names]
Evidence(o, e) == evidence' = [evidence EXCEPT ![o] = e]

StoreInit ==
  /\ disk = [o \in Objects |-> {}]
  /\ bytes = [o \in Objects |-> "none"]
  /\ evidence = [o \in Objects |-> "none"]
  /\ attested = {} /\ sealed = Backups
  /\ call = [w \in Threads |-> NoCall]
  /\ told = {} /\ asked = {} /\ gone = {} /\ faults = 0

OnDisk == <<disk, bytes>>
Replies == <<told, asked, gone>>
Rest == <<attested, sealed>>

---------------------------------------------------------------------------
(* store_encrypted_artifact                                                *)

BySource(b) == {o \in Objects : Of[o] = b /\ evidence[o] \in Registered}

(* The answer of an earlier call for the same artifact, if it is whole.    *)
StoreAgain(w, b) ==
  /\ call[w] = NoCall
  /\ \E o \in BySource(b) :
       told' = IF StoredHolds(o) THEN told \cup {o} ELSE told
  /\ UNCHANGED <<OnDisk, evidence, call, asked, gone, Rest, faults>>

InUse == {call[w].of : w \in {v \in Threads : call[v] # NoCall}}

BeginStore(w, b) ==
  /\ call[w] = NoCall
  /\ BySource(b) = {} /\ b \in sealed
  /\ \E o \in Objects :
       /\ Of[o] = b /\ o \notin InUse /\ o \notin asked
       /\ disk[o] = {} /\ evidence[o] = "none"
       /\ Enter(w, o, "store", "mkdir")
  /\ UNCHANGED <<OnDisk, evidence, Replies, Rest, faults>>

StoreDirectory(w, o) ==
  /\ Calling(w, "store", "mkdir") /\ Holding(o, {"dir"}) /\ Go(w, "copy")
  /\ UNCHANGED <<bytes, evidence>>
(* The artifact may be gone: another call stored it and cleaned it up.     *)
StoreCopy(w, o) ==
  /\ Calling(w, "store", "copy") /\ Holding(o, {"dir", "part"})
  /\ IF Of[o] \in sealed
     THEN bytes' = [bytes EXCEPT ![o] = "whole"] /\ Go(w, "link")
     ELSE UNCHANGED bytes /\ Go(w, "undo")
  /\ UNCHANGED evidence
StoreLink(w, o) ==
  /\ Calling(w, "store", "link")
  /\ Holding(o, disk[o] \cup {"file"}) /\ Go(w, "drop")
  /\ UNCHANGED <<bytes, evidence>>
StoreDrop(w, o) ==
  /\ Calling(w, "store", "drop")
  /\ Holding(o, disk[o] \ {"part"}) /\ Go(w, "register")
  /\ UNCHANGED <<bytes, evidence>>
RegisterAnyway(w, o) ==
  /\ Calling(w, "store", "register")
  /\ IF PathHolds(o) THEN Evidence(o, "stored") /\ Go(w, "staging")
                     ELSE UNCHANGED evidence /\ Go(w, "undo")
  /\ UNCHANGED OnDisk
StoreRegister(w, o) ==
  /\ Calling(w, "store", "register")
  /\ IF PathHolds(o) /\ BySource(Of[o]) = {}
     THEN Evidence(o, "stored") /\ Go(w, "staging")
     ELSE UNCHANGED evidence /\ Go(w, "undo")
  /\ UNCHANGED OnDisk

StoreBuild(w) ==
  /\ call[w] # NoCall
  /\ LET o == call[w].of
     IN  \/ StoreDirectory(w, o) \/ StoreCopy(w, o) \/ StoreLink(w, o)
         \/ StoreDrop(w, o) \/ StoreRegister(w, o)
  /\ NoFault /\ UNCHANGED <<Replies, Rest>>

StoreBreaks(w) ==
  /\ \E s \in {"mkdir", "copy", "link", "drop", "register"} :
       Calling(w, "store", s)
  /\ Fault /\ Go(w, "undo")
  /\ UNCHANGED <<OnDisk, evidence, Replies, Rest>>

(* Only the names this call created are removed, and only while they are   *)
(* the file it opened.                                                     *)
StoreUndo(w) ==
  /\ Calling(w, "store", "undo")
  /\ LET o == call[w].of
     IN \/ Holding(o, {}) /\ bytes' = [bytes EXCEPT ![o] = "none"] /\ NoFault
        \/ disk[o] # {} /\ Fault /\ UNCHANGED bytes
           /\ \E left \in {disk[o], {"dir"}} : Holding(o, left)
  /\ Leave(w)
  /\ UNCHANGED <<evidence, Replies, Rest>>

(* The sealed artifact is removed from staging; the object is stored also  *)
(* when that fails, whether the failure is reported or thrown.             *)
UndoPublished(w) ==
  /\ Calling(w, "store", "staging")
  /\ LET o == call[w].of
     IN \/ sealed' = sealed \ {Of[o]} /\ told' = told \cup {o} /\ NoFault
           /\ Leave(w)
        \/ Fault /\ UNCHANGED <<sealed, told>> /\ Go(w, "undo")
  /\ UNCHANGED <<OnDisk, evidence, attested, asked, gone>>
StoreReply(w) ==
  /\ Calling(w, "store", "staging")
  /\ LET o == call[w].of
     IN \/ sealed' = sealed \ {Of[o]} /\ told' = told \cup {o} /\ NoFault
        \/ Fault /\ UNCHANGED sealed /\ told' \in {told, told \cup {o}}
  /\ Leave(w)
  /\ UNCHANGED <<OnDisk, evidence, attested, asked, gone>>

---------------------------------------------------------------------------
(* delete_stored_object, and confirm_stored_object_absent after it         *)

BeginDelete(w, o) ==
  /\ call[w] = NoCall
  /\ o \in told
  /\ asked' = asked \cup {o}
  /\ Enter(w, o, "delete", "look")
  /\ UNCHANGED <<OnDisk, evidence, told, gone, Rest, faults>>

DeleteLook(w, o) ==
  /\ Calling(w, "delete", "look")
  /\ Saw(w, CASE evidence[o] = "deleted" -> "deleted"
              [] StoredHolds(o) -> "unlink"
              [] evidence[o] = "unlinked" /\ disk[o] = {} -> "forget"
              [] evidence[o] = "unlinked" /\ disk[o] = {"dir"} -> "rmdir"
              [] OTHER -> "refused", evidence[o])
  /\ UNCHANGED <<disk, evidence>>
(* A file that another call has unlinked meanwhile is as good as unlinked. *)
DeleteUnlink(w, o) ==
  /\ Calling(w, "delete", "unlink")
  /\ Holding(o, disk[o] \ {"file"}) /\ Go(w, "mark")
  /\ UNCHANGED evidence
DeleteMark(w, o) ==
  /\ Calling(w, "delete", "mark")
  /\ IF evidence[o] = call[w].seen
     THEN Evidence(o, "unlinked") /\ Saw(w, "rmdir", "unlinked")
     ELSE UNCHANGED evidence /\ Go(w, "refused")
  /\ UNCHANGED disk
DeleteDirectory(w, o) ==
  /\ Calling(w, "delete", "rmdir")
  /\ IF disk[o] = {"dir"} THEN Holding(o, {}) /\ Go(w, "forget")
                          ELSE UNCHANGED disk /\ Go(w, "refused")
  /\ UNCHANGED evidence
DeleteForget(w, o) ==
  /\ Calling(w, "delete", "forget")
  /\ IF evidence[o] = call[w].seen
     THEN Evidence(o, "deleted") /\ Go(w, "deleted")
     ELSE UNCHANGED evidence /\ Go(w, "refused")
  /\ UNCHANGED disk

Delete(w) ==
  /\ call[w] # NoCall
  /\ LET o == call[w].of
     IN  \/ DeleteLook(w, o) \/ DeleteUnlink(w, o) \/ DeleteMark(w, o)
         \/ DeleteDirectory(w, o) \/ DeleteForget(w, o)
  /\ NoFault /\ UNCHANGED <<bytes, Replies, Rest>>

DeleteBreaks(w) ==
  /\ \E s \in {"unlink", "rmdir"} : Calling(w, "delete", s)
  /\ Fault /\ Go(w, "refused")
  /\ UNCHANGED <<OnDisk, evidence, Replies, Rest>>

ConfirmAbsent(o) == evidence[o] = "deleted" /\ disk[o] = {}

DeleteReturns(w) ==
  /\ \E s \in {"deleted", "refused"} : Calling(w, "delete", s)
  /\ LET o == call[w].of
     IN gone' = IF call[w].step = "deleted" /\ ConfirmAbsent(o)
                THEN gone \cup {o} ELSE gone
  /\ Leave(w)
  /\ UNCHANGED <<OnDisk, evidence, told, asked, Rest, faults>>

---------------------------------------------------------------------------
(* open_stored_object, reattest_stored_object, open_reattested_object      *)

Reattest(o) ==
  /\ o \in told
  /\ PathHolds(o) /\ attested' = attested \cup {o}
  /\ UNCHANGED <<OnDisk, evidence, sealed, call, Replies, faults>>

Release(o) ==
  /\ o \in attested /\ attested' = attested \ {o}
  /\ UNCHANGED <<OnDisk, evidence, sealed, call, Replies, faults>>

BeginRead(w, o) ==
  /\ call[w] = NoCall
  /\ StoredHolds(o) \/ (o \in attested /\ PathHolds(o))
  /\ Enter(w, o, "read", "open")
  /\ UNCHANGED <<OnDisk, evidence, Replies, Rest, faults>>

(* The bytes are read through the descriptor, then the path is validated   *)
(* once more before the reader learns that they were good.                 *)
ReadAll(w) ==
  /\ \/ /\ Calling(w, "read", "open")
        /\ IF disk[call[w].of] = Exact THEN Saw(w, "close", bytes[call[w].of])
                                       ELSE Leave(w)
     \/ /\ Calling(w, "read", "close")
        /\ IF PathHolds(call[w].of) THEN Go(w, "good") ELSE Leave(w)
     \/ Calling(w, "read", "good") /\ Leave(w)
  /\ UNCHANGED <<OnDisk, evidence, Replies, Rest, faults>>

---------------------------------------------------------------------------
Crash ==
  /\ Fault
  /\ evidence' = [o \in Objects |-> "none"]
  /\ attested' = {} /\ sealed' = {}
  /\ call' = [w \in Threads |-> NoCall]
  /\ UNCHANGED <<OnDisk, Replies>>

Decay(o) ==
  /\ Fault
  /\ disk[o] \cap {"part", "file"} # {} /\ bytes[o] = "whole"
  /\ bytes' = [bytes EXCEPT ![o] = "odd"]
  /\ UNCHANGED <<disk, evidence, attested, sealed, call, Replies>>

StoreCall(w) == (\E b \in Backups : StoreAgain(w, b) \/ BeginStore(w, b))
                \/ StoreBuild(w) \/ StoreBreaks(w) \/ StoreUndo(w)
                \/ StoreReply(w)
DeleteCall(w) == Delete(w) \/ DeleteBreaks(w) \/ DeleteReturns(w)

StoreNext ==
  \/ \E w \in Threads : \/ StoreCall(w) \/ DeleteCall(w) \/ ReadAll(w)
                        \/ \E o \in Objects : BeginDelete(w, o) \/ BeginRead(w, o)
  \/ \E o \in Objects : Reattest(o) \/ Release(o) \/ Decay(o)
  \/ Crash

StoreSpec == StoreInit /\ [][StoreNext]_storeVars

---------------------------------------------------------------------------
(* Two calls for one artifact, or a call after a failure of its staging    *)
(* cleanup, never leave two registered objects of it; and what is read     *)
(* through a reader that closed without complaint is what was stored, even *)
(* when the object was deleted or damaged while it was read.               *)
StoreIsSound ==
  /\ \A b \in Backups : Cardinality(BySource(b)) <= 1
  /\ \A w \in Threads :
       Calling(w, "read", "good") => call[w].seen = "whole"
  /\ faults = 0 => \A o \in Objects \ InUse :
       disk[o] # {} => evidence[o] = "stored"

(* The store keeps its promises through failures and restarts: the names   *)
(* on disk change for a reference that was handed out only after its       *)
(* deletion was asked for, and not again after it was confirmed.           *)
Contract == INSTANCE DurableContract
  WITH kept <- [o \in Objects |-> CASE disk[o] = {} -> "absent"
                                    [] disk[o] = Exact -> "whole"
                                    [] OTHER -> "partial"]
KeepsPromises == [][Contract!ContractNext]_(Contract!contractVars)
=============================================================================
