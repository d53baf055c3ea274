---------------------------- MODULE Publication ----------------------------
(***************************************************************************)
(* How every stage of the backup engine puts its product on disk: a fresh  *)
(* private directory, one exclusive ".part" file, a hard link to the final *)
(* name, the part removed, the result validated and entered in the         *)
(* provider's registry; on any exception the names it owns are removed     *)
(* again.  The same protocol is written out once per provider              *)
(* (deterministic_package.py, canonical_manifest.py, media_capture.py,     *)
(* logical_export.py, package_verification.py, encrypted_artifact.py).     *)
(*                                                                         *)
(* A place stands for the directory of one reference; `place` is the set   *)
(* of names on disk, `body` what the file holds, `ledger` the registry of  *)
(* the provider (memory of the worker process), `step` the position inside *)
(* the call that is running.  Faults are an exception while building, a    *)
(* name that cannot be removed, and damage to bytes on disk.               *)
(***************************************************************************)
EXTENDS Naturals, FiniteSets, Sequences, SequencesExt

CONSTANTS ExportPlan,    \* the component exports, in the order of the plan
          CapturePlan,   \* the media captures, in the order of their names
          MostMishaps    \* bound on injected mishaps

Exports == Range(ExportPlan)
Captures == Range(CapturePlan)
Inputs == Exports \cup Captures
Places == Inputs \cup {"snapshot", "manifest", "package", "evidence", "sealed"}

ASSUME MostMishapsAssumption == MostMishaps \in Nat

\* The plan names every input once.
ASSUME PlansAssumption ==
  /\ ExportPlan \in Seq(Exports) /\ CapturePlan \in Seq(Captures)
  /\ \A i, j \in DOMAIN ExportPlan : ExportPlan[i] = ExportPlan[j] => i = j
  /\ \A i, j \in DOMAIN CapturePlan : CapturePlan[i] = CapturePlan[j] => i = j
  /\ Exports \cap Captures = {}
  /\ Inputs \cap {"snapshot", "manifest", "package", "evidence", "sealed", "none"} = {}

VARIABLES place, body, ledger, source, step, mishaps

pubVars == <<place, body, ledger, source, step, mishaps>>

MishapKinds == {"build", "removal", "damage"}
MishapCount == mishaps["build"] + mishaps["removal"] + mishaps["damage"]

Mishap(kind) == /\ MishapCount < MostMishaps
                /\ mishaps' = [mishaps EXCEPT ![kind] = @ + 1]

Nothing == [q \in Inputs |-> "none"]
Written(s, h) == [form |-> "full", says |-> s, has |-> h]
Blank == [form |-> "none", says |-> Nothing, has |-> Nothing]
Only(q, content) == [Nothing EXCEPT ![q] = content]

Whole == {"dir", "final"}

(***************************************************************************)
(* A record file is known to its provider by identity and size alone; all  *)
(* other products by their digest, which damage does not survive.  The     *)
(* snapshot is not asked again once it has been validated.                 *)
(***************************************************************************)
Lies(p) == p \notin Exports /\ body[p].form = "odd"

Intact(p) == /\ ledger[p] = "published"
             /\ place[p] = Whole
             /\ ~Lies(p)

PubInit == /\ place = [p \in Places |-> {}]
           /\ body = [p \in Places |-> Blank]
           /\ ledger = [p \in Places |-> "new"]
           /\ source = [c \in Captures |-> "old"]
           /\ mishaps = [k \in MishapKinds |-> 0]

Names(p, names) == place' = [place EXCEPT ![p] = names]
Kept == UNCHANGED <<place, body, ledger, source, mishaps>>

---------------------------------------------------------------------------
(* Making one product.                                                     *)

Directory(p) ==
  /\ step = "mkdir"
  /\ place[p] = {}
  /\ Names(p, {"dir"})
  /\ step' = "reserve"
  /\ UNCHANGED <<body, ledger, source, mishaps>>

Reserve(p) ==
  /\ step = "reserve"
  /\ Names(p, {"dir", "part"})
  /\ step' = "write"
  /\ UNCHANGED <<body, ledger, source, mishaps>>

Write(p, ready, content) ==
  /\ step = "write"
  /\ body' = [body EXCEPT ![p] = IF ready THEN content ELSE @]
  /\ step' = IF ready THEN "check" ELSE "undo"
  /\ UNCHANGED <<place, ledger, source, mishaps>>

Check(p, good) ==
  /\ step = "check"
  /\ step' = IF good THEN "link" ELSE "undo"
  /\ Kept

Link(p) ==
  /\ step = "link"
  /\ Names(p, place[p] \cup {"final"})
  /\ step' = "drop"
  /\ UNCHANGED <<body, ledger, source, mishaps>>

DropPart(p) ==
  /\ step = "drop"
  /\ Names(p, place[p] \ {"part"})
  /\ step' = "confirm"
  /\ UNCHANGED <<body, ledger, source, mishaps>>

(* The finished directory is validated and only then registered.           *)
Confirm(p) ==
  /\ step = "confirm"
  /\ IF place[p] = Whole /\ ~Lies(p)
     THEN ledger' = [ledger EXCEPT ![p] = "published"] /\ step' = "made"
     ELSE step' = "undo" /\ UNCHANGED ledger
  /\ UNCHANGED <<place, body, source, mishaps>>

(* An exception anywhere before the product is registered.                 *)
Break(p) ==
  /\ step \in {"mkdir", "reserve", "write", "more", "check", "link", "drop",
               "confirm"}
  /\ Mishap("build")
  /\ step' = "undo"
  /\ UNCHANGED <<place, body, ledger, source>>

Undo(p) ==
  /\ step = "undo"
  /\ \/ /\ Names(p, {})
        /\ body' = [body EXCEPT ![p] = Blank]
        /\ UNCHANGED mishaps
     \/ /\ place[p] # {}
        /\ Mishap("removal")
        /\ \E left \in {place[p], {"dir"}} : Names(p, left)
        /\ UNCHANGED body
  /\ step' = "unmade"
  /\ UNCHANGED <<ledger, source>>

---------------------------------------------------------------------------
(* Removing one product, exactly: the registry says how far it got, so the *)
(* call may be repeated.                                                   *)

RemoveFile(p) ==
  /\ step = "unlink"
  /\ \/ /\ ledger[p] = "cleaned"
        /\ step' = "removed"
        /\ Kept
     \/ /\ ledger[p] = "unlinked"
        /\ step' = "rmdir"
        /\ Kept
     \/ /\ Intact(p)
        /\ Names(p, place[p] \ {"final"})
        /\ ledger' = [ledger EXCEPT ![p] = "unlinked"]
        /\ body' = [body EXCEPT ![p] = Blank]
        /\ step' = "rmdir"
        /\ UNCHANGED <<source, mishaps>>
     \/ /\ ledger[p] \in {"published", "new"} /\ ~Intact(p)
        /\ step' = "stuck"
        /\ Kept
     \/ /\ Intact(p)
        /\ Mishap("removal")
        /\ step' = "stuck"
        /\ UNCHANGED <<place, body, ledger, source>>

RemoveDirectory(p) ==
  /\ step = "rmdir"
  /\ \/ /\ Names(p, {})
        /\ ledger' = [ledger EXCEPT ![p] = IF p = "snapshot" THEN @ ELSE "cleaned"]
        /\ step' = "removed"
        /\ UNCHANGED <<body, source, mishaps>>
     \/ /\ Mishap("removal")
        /\ step' = "stuck"
        /\ UNCHANGED <<place, body, ledger, source>>

---------------------------------------------------------------------------
(* The environment: bytes on disk go bad, and the application goes on      *)
(* replacing and deleting media files while the backup runs.               *)

Damage(p) ==
  /\ Mishap("damage")
  /\ place[p] \cap {"part", "final"} # {}
  /\ body[p].form = "full"
  /\ body' = [body EXCEPT ![p] = IF p \in Exports
                                 THEN [@ EXCEPT !.has[p] = "odd"]
                                 ELSE [@ EXCEPT !.form = "odd"]]
  /\ UNCHANGED <<place, ledger, source, step>>

(* A write after the snapshot's cutoff leaves a later modification time.   *)
EditMedia(c) ==
  /\ source[c] = "old"
  /\ \E s \in {"new", "gone"} : source' = [source EXCEPT ![c] = s]
  /\ UNCHANGED <<place, body, ledger, step, mishaps>>
=============================================================================
