------------------------------- MODULE Ledger -------------------------------
(* What the wallet's database promises about the entries of the mesh: the    *)
(* life of one leads from stored to known, confirmed and credited.  It may   *)
(* stop on the way; it never skips a stage, goes back, or repeats one, unless*)
(* the operator has the database forget them all.                            *)
EXTENDS Naturals

CONSTANT Ids        \* the entries there may be

VARIABLES onMesh,   \* those the mesh has confirmed
          stored,   \* those whose transaction is in the database
          known,    \* those whose hash is
          recorded, \* those recorded as confirmed
          credits   \* how often each was added to a balance

ledgerVars == <<onMesh, stored, known, recorded, credits>>

LedgerInit ==
    /\ onMesh = {} /\ stored = {} /\ known = {} /\ recorded = {}
    /\ credits = [tx \in Ids |-> 0]

(* The mesh confirms some more.                                              *)
MeshConfirms ==
    /\ onMesh \subseteq onMesh'
    /\ UNCHANGED <<stored, known, recorded, credits>>

Store ==
    /\ stored \subseteq stored' /\ stored' \subseteq Ids
    /\ UNCHANGED <<onMesh, known, recorded, credits>>

(* Hashes become known when their transactions are stored, and are recorded  *)
(* as confirmed when the mesh has confirmed them.                            *)
Record ==
    /\ known \subseteq known' /\ known' \subseteq stored
    /\ recorded \subseteq recorded' /\ recorded' \subseteq known' \cap onMesh
    /\ UNCHANGED <<onMesh, stored, credits>>

(* What has been recorded is credited, if it has not been.                   *)
Credit ==
    /\ \E C \in SUBSET {tx \in recorded : credits[tx] = 0} :
          credits' = [tx \in Ids |-> IF tx \in C THEN 1 ELSE credits[tx]]
    /\ UNCHANGED <<onMesh, stored, known, recorded>>

Forget ==
    /\ known' = {} /\ recorded' = {}
    /\ credits' = [tx \in Ids |-> 0]
    /\ UNCHANGED <<onMesh, stored>>

LedgerNext == MeshConfirms \/ Store \/ Record \/ Credit \/ Forget

LedgerSpec == LedgerInit /\ [][LedgerNext]_ledgerVars
=============================================================================
