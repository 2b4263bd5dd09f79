---------------------------- MODULE SearchSteps ----------------------------
(* getNewAddress (api/api) question by question, on a mesh that stays as it  *)
(* is: the iteratee of async.doWhilst asks about an index, the test of the   *)
(* loop takes the answer.  Client has it on a mesh that changes meanwhile.   *)
EXTENDS AddressSearch

VARIABLES used,     \* the indexes of which the node knows a transaction
          search    \* the variables of the search

searchVars == <<used, search>>

SearchInit(usedSets, indexes) ==
    /\ used \in usedSets
    /\ search \in {SearchFrom(index) : index \in indexes}

SearchIdle == SearchInit({{}}, {0})

SearchStep ==
    /\ Goes(search)
    /\ search' = AfterAnswer(NextProbe(search), NextProbe(search).end \in used)
    /\ UNCHANGED used

SearchSpec == SearchInit(SUBSET Nat, Nat) /\ [][SearchStep]_searchVars

-----------------------------------------------------------------------------
(* Addresses are used one after the other, as getNewAddress assumes.         *)
Consecutive == \A n \in used : 0..n \subseteq used

(* The search ends at an unused address; it is the first one when those that *)
(* are used follow each other and the index it was given is one of them, or  *)
(* is 0, which the step down from 1 (962) reaches.                           *)
SearchFindsFirst ==
    ~ Goes(search) =>
        /\ search.end \notin used
        /\ Consecutive /\ search.index \in used \cup {0} => 0..(search.end - 1) \subseteq used

(* The search starts from the index it was given, whatever that is: `Key     *)
(* index to start search from' (886).  It does not: the index counts as used *)
(* (min, 937), and the first question is about one behind it (943).          *)
SearchStartsAtIndex ==
    ~ Goes(search) /\ Consecutive => search.index..(search.end - 1) \subseteq used

(* The search comes to its end: each question strides up, or it is the last, *)
(* or it narrows the indexes between the highest used and the lowest unused  *)
(* one that are known (956-980).                                             *)
Narrows ==
    IF search.found
    THEN ~ Goes(search') \/ search'.max - search'.min < search.max - search.min
    ELSE search'.found \/ search'.end = search.end + Stride
NarrowsAlways == [][Narrows]_searchVars
=============================================================================
