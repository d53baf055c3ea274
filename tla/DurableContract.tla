-------------------------- MODULE DurableContract --------------------------
(***************************************************************************)
(* What a durable store promises to the engine that hands it an artifact   *)
(* (contracts.DurableBackupStorageProvider): a reference is handed out for *)
(* a whole object only, the object stays whole until its deletion is       *)
(* asked for, and a deletion that was confirmed is final.                  *)
(***************************************************************************)
EXTENDS FiniteSets

CONSTANT Objects   \* the references a store may ever hand out

VARIABLES kept,    \* what is in the store under a reference
          told,    \* the references handed out
          asked,   \* the references whose deletion was asked for
          gone     \* the references whose deletion was confirmed

contractVars == <<kept, told, asked, gone>>

ContractInit == /\ kept = [o \in Objects |-> "absent"]
                /\ told = {} /\ asked = {} /\ gone = {}

Becomes(o, states) == \E s \in states : kept' = [kept EXCEPT ![o] = s]

Grow(o) == /\ o \notin told \cup asked
           /\ Becomes(o, {"partial", "whole"})
           /\ UNCHANGED <<told, asked, gone>>

Withdraw(o) == /\ o \notin told \/ o \in asked
               /\ kept[o] # "absent"
               /\ Becomes(o, {"partial", "absent"})
               /\ UNCHANGED <<told, asked, gone>>

Promise(o) == /\ kept[o] = "whole"
              /\ told' = told \cup {o}
              /\ UNCHANGED <<kept, asked, gone>>

Ask(o) == /\ asked' = asked \cup {o}
          /\ UNCHANGED <<kept, told, gone>>

ConfirmGone(o) == /\ kept[o] = "absent" /\ o \in asked
                  /\ gone' = gone \cup {o}
                  /\ UNCHANGED <<kept, told, asked>>

ContractNext == \E o \in Objects :
    Grow(o) \/ Withdraw(o) \/ Promise(o) \/ Ask(o) \/ ConfirmGone(o)

ContractSpec == ContractInit /\ [][ContractNext]_contractVars
=============================================================================
