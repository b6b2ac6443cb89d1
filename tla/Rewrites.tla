------------------------------- MODULE Rewrites -------------------------------
(***************************************************************************)
(* The two rewritings of a requested function that module Deobfuscator     *)
(* takes as steps: its stores to the table (TableStores), or its instances *)
(* (Instances).  They share no state; one of them is run, the other stays  *)
(* at one of its first states.                                             *)
(***************************************************************************)
EXTENDS TableStores, Sequences

CONSTANTS
  Bodies, MaxHandled  \* as in Instances

VARIABLES
  rewriting,   \* "table" or "instances"
  module, inject, refs, entry, handled, pc, exit

instances == <<module, inject, refs, entry, handled, pc, exit>>

I == INSTANCE Instances

ASSUME RewritesAssumption == I!InstancesAssumption

(* What stays untouched is one of what is considered.                      *)
RewritesInit ==
  \/ /\ rewriting = "table"
     /\ entry = CHOOSE b \in Bodies : TRUE
     /\ module = CHOOSE m \in I!Modules : TRUE
     /\ inject = FALSE /\ refs = FALSE
     /\ I!Init /\ Init
  \/ /\ rewriting = "instances"
     /\ prog = CHOOSE p \in Programs : TRUE
     /\ Init /\ I!Init

RewritesNext ==
  \/ rewriting = "table" /\ Next /\ UNCHANGED <<rewriting, instances>>
  \/ rewriting = "instances" /\ I!Next /\ UNCHANGED <<rewriting, vars>>

RewritesSpec == RewritesInit /\ [][RewritesNext]_<<vars, rewriting, instances>>
-----------------------------------------------------------------------------
(* A store is erased twice only if both its operands name the table, and   *)
(* the cleanup of some functions leaves all other stores.                  *)
ErasesItsOwn == TypeOK /\ ErasedOnce /\ OthersKept

(* However often it is handled, F works on one instance, which is          *)
(* allocated and initialized before it is used.                            *)
InstanceIsReady == I!TypeOK /\ I!InitializedBeforeUse /\ I!OneInstance
=============================================================================
