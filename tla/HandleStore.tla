----------------------------- MODULE HandleStore -----------------------------
(***************************************************************************)
(* What the handle interface promises, whatever the heap does underneath:  *)
(* a handle names one object, which keeps its size and its owner until its *)
(* handle is deleted.  A compaction may take any number of steps and does  *)
(* nothing to an object.  A request that is hard to serve may take away,   *)
(* once, every object of one owner that is idle, and nothing else.         *)
(***************************************************************************)
EXTENDS Integers

CONSTANTS
  Handles,   \* the handles there are
  Owners,    \* who may own an object
  Tasks,     \* the owners that run and may lose their objects
  Sizes      \* usable bytes of an object

VARIABLES
  objects,   \* handle -> the object it names
  busy,      \* the owners that are not idle
  call       \* the call under way: "none", "compact", "request", or "reclaimed", a
             \* request that has taken an owner's objects

svars == <<objects, busy, call>>

Object == [size : Sizes, owner : Owners]

NoObjects == [i \in {} |-> 0]

OwnedBy(owner) == {i \in DOMAIN objects : objects[i].owner = owner}

Without(gone) == [i \in DOMAIN objects \ gone |-> objects[i]]

Init == objects = NoObjects /\ busy = {} /\ call = "none"

\* Handle i, which names nothing, gets an object, from a request that takes one step
\* or from one under way.
Create(i) ==
  /\ call # "compact"
  /\ i \notin DOMAIN objects
  /\ objects' \in [DOMAIN objects \cup {i} -> Object]
  /\ \A j \in DOMAIN objects : objects'[j] = objects[j]
  /\ call' = "none"
  /\ UNCHANGED busy

\* The owner of an object lets it go; no call under way does.
Delete(i) ==
  /\ call = "none"
  /\ i \in DOMAIN objects
  /\ objects' = Without({i})
  /\ UNCHANGED <<busy, call>>

\* A call that takes several steps begins.
Begin == call = "none" /\ call' \in {"compact", "request"} /\ UNCHANGED <<objects, busy>>

\* The request under way costs an idle owner all its objects.
Reclaim(owner) ==
  /\ call = "request"
  /\ owner \notin busy
  /\ objects' = Without(OwnedBy(owner))
  /\ call' = "reclaimed"
  /\ UNCHANGED busy

\* A compaction is over, or a request has failed.
Return == call # "none" /\ call' = "none" /\ UNCHANGED <<objects, busy>>

Clear == call = "none" /\ objects' = NoObjects /\ UNCHANGED <<busy, call>>

\* Owners start and stop between the calls, which concerns no object.
Turn == call = "none" /\ busy' \subseteq Tasks /\ UNCHANGED <<objects, call>>

Next ==
  \/ \E i \in Handles : Create(i) \/ Delete(i)
  \/ \E owner \in Tasks : Reclaim(owner)
  \/ Begin
  \/ Return
  \/ Turn
  \/ Clear

Spec == Init /\ [][Next]_svars

=============================================================================
