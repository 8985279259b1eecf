------------------------------ MODULE RefView ------------------------------
(***************************************************************************)
(* What a reference table promises its readers, without pages, cursors,    *)
(* goroutines or locks.                                                    *)
(*                                                                         *)
(* The view changes in one of two ways only.  A refresh installs a whole   *)
(* new view at once, in which every key has what the collection served for *)
(* it at some moment since the refresh began; a notification replaces the  *)
(* entry of one key.  In particular no reader ever sees a view built half  *)
(* from one refresh and half from another, and a refresh that is given up  *)
(* leaves the view as it was.                                              *)
(***************************************************************************)
EXTENDS RefRecord

VARIABLES
  collection,  \* per key, the document the compacted view serves
  view,        \* per key, what a reader of the table gets
  offered      \* per key, what the collection served since the refresh began

vars == <<collection, view, offered>>

NothingOffered == [k \in Keys |-> {}]
Begun(c) == [k \in Keys |-> {c[k]}]

Init ==
  /\ collection = [k \in Keys |-> NoRev]
  /\ view = Empty
  /\ offered = Begun(collection)

Change(k, r) ==
  /\ collection' = [collection EXCEPT ![k] = r]
  /\ offered' \in {offered, [offered EXCEPT ![k] = @ \cup {r}]}
  /\ UNCHANGED view

Begin   == offered' = Begun(collection) /\ UNCHANGED <<collection, view>>
Abandon == offered' = NothingOffered /\ UNCHANGED <<collection, view>>

Install ==
  /\ \A k \in Keys : \E r \in offered[k] : view'[k] = ValueOf(r)
  /\ view' \in [Keys -> Values \cup {NoValue}]
  /\ offered' = NothingOffered
  /\ UNCHANGED collection

Patch(k, r) ==
  /\ r.key = k /\ ParseRecord(r) /\ Accepts(r)
  /\ view' = [view EXCEPT ![k] = AppliedValue(r)]
  /\ UNCHANGED <<collection, offered>>

Restart ==
  /\ view' = Empty
  /\ offered' = Begun(collection)
  /\ UNCHANGED collection

Next ==
  \/ \E k \in Keys, r \in Revisions \cup {NoRev} : Change(k, r)
  \/ Begin \/ Abandon \/ Install \/ Restart
  \/ \E k \in Keys, r \in Revisions : Patch(k, r)

Spec == Init /\ [][Next]_vars
=============================================================================
