------------------------------ MODULE OptionalValue ----------------------------
(***************************************************************************)
(* Optional<T> of src/utils/optional.hpp, for a T that owns a resource: an *)
(* object of type T has to be destroyed once, and is of no use afterwards. *)
(* The class constructs and destroys T by hand in m_storage.  It declares  *)
(* no copy constructor and no copy assignment, so copying an Optional, as  *)
(* "doneJob = tPool.tryGetNextDoneTask()" does (core_parallel.hpp:73),     *)
(* copies the bytes of m_storage and the flag.                             *)
(*                                                                         *)
(* An object of type T is a number; the bytes in m_storage are the number  *)
(* of the object that was constructed, or copied, there last.              *)
(***************************************************************************)
EXTENDS Naturals

CONSTANTS
  Optional,        (* places for objects of type Optional<T>               *)
  MaxObjects       (* bound: objects of type T ever constructed in one     *)

ASSUME MaxObjects \in Nat

Object == 1 .. MaxObjects
NoBytes == 0             (* m_storage was never written                    *)

VARIABLES
  exists,          (* the places whose Optional is in its lifetime         *)
  storage,         (* m_storage                                            *)
  hasValue,        (* the places with m_hasValue                           *)
  live,            (* objects of type T in their lifetime                  *)
  constructed,     (* history: number of objects constructed               *)
  misused,         (* history: objects destroyed twice, or read when dead  *)
  shared           (* history: objects whose bytes were copied, or         *)
                   (* overwritten by a copy, or assigned to their own place *)

optionalVars == <<exists, storage, hasValue, live, constructed, misused, shared>>

OptionalInit ==
  /\ exists = {}
  /\ storage = [o \in Optional |-> NoBytes]
  /\ hasValue = {}
  /\ live = {}
  /\ constructed = 0
  /\ misused = {}
  /\ shared = {}

Value(o) == storage[o]

ResetKeepsObject(o) == [live |-> live, misused |-> misused]

(* reset(): the destructor of the object that the flag says is there.      *)
Reset(o) ==
  IF o \notin hasValue
  THEN [live |-> live, misused |-> misused]
  ELSE [live |-> live \ {Value(o)},
        misused |-> IF Value(o) \in live THEN misused ELSE misused \cup {Value(o)}]

(* A T is constructed in m_storage, from a value of the caller.            *)
Construct(o, liveBefore) ==
  /\ constructed < MaxObjects
  /\ constructed' = constructed + 1
  /\ storage' = [storage EXCEPT ![o] = constructed + 1]
  /\ hasValue' = hasValue \cup {o}
  /\ live' = liveBefore \cup {constructed + 1}

(* Optional()                                                              *)
CreateEmpty(o) ==
  /\ o \notin exists
  /\ exists' = exists \cup {o}
  /\ storage' = [storage EXCEPT ![o] = NoBytes]
  /\ UNCHANGED <<hasValue, live, constructed, misused, shared>>

(* Optional(value)                                                         *)
CreateFrom(o) ==
  /\ o \notin exists
  /\ exists' = exists \cup {o}
  /\ Construct(o, live)
  /\ UNCHANGED <<misused, shared>>

(* operator=(value), for a value outside of o.                             *)
Assign(o) ==
  /\ o \in exists
  /\ Construct(o, Reset(o).live)
  /\ misused' = Reset(o).misused
  /\ UNCHANGED <<exists, shared>>

(* operator=(value) for the value of o itself, o = o.value(): it is        *)
(* destroyed before it is read.                                            *)
AssignOwn(o) ==
  /\ o \in exists /\ o \in hasValue
  /\ Construct(o, Reset(o).live)
  /\ misused' = Reset(o).misused \cup {Value(o)}
  /\ shared' = shared \cup {Value(o), constructed + 1}
  /\ UNCHANGED exists

(* reset(), called by the owner or by the destructor.                      *)
CallReset(o, lives) ==
  /\ o \in exists
  /\ exists' = IF lives THEN exists ELSE exists \ {o}
  /\ live' = Reset(o).live
  /\ misused' = Reset(o).misused
  /\ hasValue' = hasValue \ {o}
  /\ UNCHANGED <<storage, constructed, shared>>

(* The implicit copy constructor and copy assignment of p from o: members  *)
(* only, the object that p held is not destroyed.                          *)
Copy(o, p) ==
  /\ o \in exists /\ p # o
  /\ exists' = exists \cup {p}
  /\ storage' = [storage EXCEPT ![p] = storage[o]]
  /\ hasValue' = IF o \in hasValue THEN hasValue \cup {p} ELSE hasValue \ {p}
  /\ shared' = shared \cup {storage[q] : q \in {o, p} \cap hasValue}
  /\ UNCHANGED <<live, constructed, misused>>

OptionalNext ==
  \E o \in Optional :
    \/ CreateEmpty(o) \/ CreateFrom(o)
    \/ Assign(o) \/ AssignOwn(o)
    \/ \E lives \in BOOLEAN : CallReset(o, lives)
    \/ \E p \in Optional : Copy(o, p)

OptionalSpec == OptionalInit /\ [][OptionalNext]_optionalVars

--------------------------------------------------------------------------------

Holders(x) == {o \in exists \cap hasValue : Value(o) = x}

(* An object that never met an implicit copy or an assignment to itself is *)
(* destroyed once, and exactly when its holder gives it up: there is one   *)
(* Optional whose flag says that it holds it while it lives, and none      *)
(* afterwards, in any sequence of calls, other Optionals being copied or   *)
(* not.                                                                    *)
OwnedOnce ==
  \A x \in (1 .. constructed) \ shared :
    /\ x \notin misused
    /\ IF x \in live THEN \E o \in exists : Holders(x) = {o} ELSE Holders(x) = {}

================================================================================
