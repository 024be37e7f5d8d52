----------------------------- MODULE KeyCustody -----------------------------
(***************************************************************************)
(* What the AccessKey controller promises about the keys in Garage, without *)
(* saying how (the finalizer, ensureExternalKey and resolveExtKeyID of      *)
(* internal/controller/accesskey_controller.go): an owner is registered     *)
(* before it gets a key, has one key at most, keeps it until the controller *)
(* knows that the owner is to go, and leaves only after its key.            *)
(***************************************************************************)
CONSTANT UIDs    \* the AccessKeys of which Promise speaks

VARIABLES owners,   \* UIDs the controller has taken in charge
          closing,  \* those it knows are to be deleted
          keys      \* the keys in Garage: [id, uid]

vars == <<owners, closing, keys>>

KeysOf(u) == {k \in keys : k.uid = u}

Init == owners = {} /\ closing = {} /\ keys = {}

Register(u) ==
  /\ u \notin owners /\ KeysOf(u) = {}
  /\ owners' = owners \cup {u}
  /\ UNCHANGED <<closing, keys>>

\* A key under an ID no other key has.
Create(u) ==
  /\ u \in owners \ closing /\ KeysOf(u) = {}
  /\ \E k \in keys' \ keys :
       /\ k.uid = u /\ \A l \in keys : l.id # k.id
       /\ keys' = keys \cup {k}
  /\ UNCHANGED <<owners, closing>>

\* A restarted controller learns of many at once.
Close(S) ==
  /\ S \subseteq owners \ closing
  /\ closing' = closing \cup S
  /\ UNCHANGED <<owners, keys>>

Delete(u) ==
  /\ u \in closing
  /\ keys' = keys \ KeysOf(u)
  /\ UNCHANGED <<owners, closing>>

Release(u) ==
  /\ u \in closing /\ KeysOf(u) = {}
  /\ owners' = owners \ {u} /\ closing' = closing \ {u}
  /\ UNCHANGED keys

Next ==
  \/ \E u \in owners' : Register(u)
  \/ \E u \in owners : Create(u) \/ Delete(u) \/ Release(u)
  \/ \E S \in SUBSET closing' : Close(S)

Spec == Init /\ [][Next]_vars

\* Every owner gets its key unless it is to go, and one that is to go leaves.
Served(u) == u \in owners ~> (KeysOf(u) # {} \/ u \notin owners \ closing)
Released(u) == u \in closing ~> u \notin owners

Promise == \A u \in UIDs : Served(u) /\ Released(u)
=============================================================================
