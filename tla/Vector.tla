------------------------------- MODULE Vector -------------------------------
(***************************************************************************)
(* math/Vector.h over memory handles.  A vector is a matrix of one row     *)
(* that may keep a handle alive (a shared pointer), and always has a bare  *)
(* pointer to its data; sub_vec and sub_vec_from copy the bare pointer     *)
(* only, and resize replaces it only when the handle is too small.         *)
(* Failed checks are logged and the call goes on.                          *)
(***************************************************************************)
EXTENDS MemoryHandle

CONSTANTS Vectors,    \* vectors that exist at the same time, at most
          Lengths,    \* sizes that callers ask for
          Starts,     \* where they start sub vectors
          FarthestStart, \* bound: no view begins farther into its memory
          SizeOf,     \* sizeof(T)
          NoHandle

ASSUME SizeOfAssumption == SizeOf \in Nat \ {0}
ASSUME LengthsAssumption == Lengths \cup Starts \cup {FarthestStart} \subseteq Nat
ASSUME NoHandleAssumption == NoHandle \notin Handles
ASSUME RequestsOfLengths == \A n \in Lengths : n * SizeOf \in Requests

VARIABLES handle,   \* _memory_handle, or NoHandle for nullptr
          data,     \* the buffer that _data points into, NoBuf without a vector
          at,       \* and the element in it
          length,   \* _size
          dropped,  \* the handle that an assignment has just replaced
          kind,     \* history: how the vector got its data
          source,   \* history: the handle whose memory a view was taken from
          loose     \* history: the view is not what it was when it was taken

viewVars == <<handle, data, at, length, kind, source, loose>>
vectorVars == <<vars, viewVars, dropped>>

VectorInit == /\ Init
              /\ handle = [v \in Vectors |-> NoHandle]
              /\ data = [v \in Vectors |-> NoBuf]
              /\ at = [v \in Vectors |-> 0]
              /\ length = [v \in Vectors |-> 0]
              /\ dropped = NoHandle
              /\ kind = [v \in Vectors |-> "none"]
              /\ source = [v \in Vectors |-> NoHandle]
              /\ loose = [v \in Vectors |-> FALSE]

Exist == {v \in Vectors : kind[v] # "none"}
Ready == MayRun /\ dropped = NoHandle
Users(h) == {v \in Vectors : handle[v] = h}

\* v is from now on what the arguments say.
Becomes(v, h, b, start, n, k, s, l) ==
    /\ handle' = [handle EXCEPT ![v] = h]
    /\ data' = [data EXCEPT ![v] = b]
    /\ at' = [at EXCEPT ![v] = start]
    /\ length' = [length EXCEPT ![v] = n]
    /\ kind' = [kind EXCEPT ![v] = k]
    /\ source' = [source EXCEPT ![v] = s]
    /\ loose' = [loose EXCEPT ![v] = l]

\* create(size): new memory, of which the vector has the whole.
New(v, n) ==
    /\ Ready /\ v \notin Exist
    /\ \E h \in Handles : /\ Create(h, n * SizeOf)
                          /\ Becomes(v, h, buf'[h], 0, n, "own", NoHandle, FALSE)
    /\ UNCHANGED dropped

\* create(size, handle, offset): shares the memory of u from an element on, which the
\* caller keeps within it.
Share(v, u, n, start) ==
    /\ Ready /\ v \notin Exist /\ handle[u] # NoHandle
    /\ (start + n) * SizeOf <= size[handle[u]]
    /\ Becomes(v, handle[u], buf[handle[u]], start, n,
               IF start = 0 THEN "own" ELSE "shifted", NoHandle, FALSE)
    /\ UNCHANGED <<vars, dropped>>

\* (mutant of TooSmall: forgets that sizes are in bytes)
TooSmallInElements(v, n) ==
    IF handle[v] = NoHandle THEN TRUE ELSE n > AllocSize(size[handle[v]])

\* The test in resize: no memory of its own, or not enough.
TooSmall(v, n) ==
    IF handle[v] = NoHandle THEN TRUE ELSE n * SizeOf > AllocSize(size[handle[v]])

\* resize with new memory, which replaces the old handle.
ResizeNew(v, n) ==
    /\ Ready /\ v \in Exist
    /\ TooSmall(v, n)
    /\ \E h \in Handles : /\ Create(h, n * SizeOf)
                          /\ Becomes(v, h, buf'[h], 0, n, "own", NoHandle, FALSE)
    /\ dropped' = handle[v]

\* resize within the memory of the handle: _data stays, even if it points elsewhere.
ResizeKeep(v, n) ==
    /\ Ready /\ v \in Exist
    /\ ~TooSmall(v, n)
    /\ Becomes(v, handle[v], data[v], at[v], n, kind[v], source[v],
               loose[v] \/ kind[v] # "own")
    /\ UNCHANGED <<vars, dropped>>

\* The memory that a vector looks at, in the end, through views of views.
Origin(u) == IF kind[u] = "view" THEN source[u] ELSE handle[u]
Overruns(u, start, n) == start + n > length[u]

\* sub_vec_from: v keeps its handle and looks into the data of u, which may be v.
SubVecFrom(v, u, start, n) ==
    /\ Ready /\ v \in Exist /\ u \in Exist /\ at[u] + start <= FarthestStart
    /\ Becomes(v, handle[v], data[u], at[u] + start, n, "view", Origin(u),
               loose[u] \/ start >= length[u] \/ Overruns(u, start, n))
    /\ UNCHANGED <<vars, dropped>>

\* sub_vec: a new vector without a handle.
SubVec(v, u, start, n) ==
    /\ Ready /\ v \notin Exist /\ u \in Exist /\ at[u] + start <= FarthestStart
    /\ Becomes(v, NoHandle, data[u], at[u] + start, n, "view", Origin(u),
               loose[u] \/ Overruns(u, start, n))
    /\ UNCHANGED <<vars, dropped>>

\* ~VectorT: the vector goes, and with it its share of the handle.
Drop(v) ==
    /\ Ready /\ v \in Exist
    /\ Becomes(v, NoHandle, NoBuf, 0, 0, "none", NoHandle, FALSE)
    /\ dropped' = handle[v]
    /\ UNCHANGED vars

\* (mutant of Release: does not ask whether others share the handle)
ReleaseShared ==
    /\ MayRun /\ dropped # NoHandle
    /\ dropped' = NoHandle
    /\ Destroy(dropped)
    /\ loose' = [v \in Vectors |-> loose[v] \/ (kind[v] = "view" /\ source[v] = dropped)]
    /\ UNCHANGED <<handle, data, at, length, kind, source>>

\* The shared pointer that was replaced or destroyed: the last one destroys the handle.
Release ==
    /\ MayRun /\ dropped # NoHandle
    /\ dropped' = NoHandle
    /\ IF Users(dropped) = {}
       THEN /\ Destroy(dropped)
            /\ loose' = [v \in Vectors |->
                            loose[v] \/ (kind[v] = "view" /\ source[v] = dropped)]
       ELSE UNCHANGED <<vars, loose>>
    /\ UNCHANGED <<handle, data, at, length, kind, source>>

End == Exist = {} /\ dropped = NoHandle /\ DestroyEngine /\ UNCHANGED <<viewVars, dropped>>

VectorNext ==
    \/ \E v \in Vectors, n \in Lengths : New(v, n) \/ ResizeNew(v, n) \/ ResizeKeep(v, n)
    \/ \E v, u \in Vectors, n \in Lengths, start \in Starts :
          Share(v, u, n, start) \/ SubVecFrom(v, u, start, n) \/ SubVec(v, u, start, n)
    \/ \E v \in Vectors : Drop(v)
    \/ Release \/ End

VectorSpec == VectorInit /\ [][VectorNext]_vectorVars
-----------------------------------------------------------------------------
\* A vector that was never made a view, and starts where its memory does, has at least
\* as many elements in it as its size, whatever it was resized to and whoever shares it.
OwnersHaveRoom ==
    ~failed => \A v \in Exist : kind[v] = "own" =>
        /\ handle[v] \in Live /\ data[v] = buf[handle[v]] /\ at[v] = 0
        /\ length[v] * SizeOf <= heap[data[v]]

\* Two vectors meet in one buffer only if they share a handle or one was made a view.
MeetByIntent ==
    ~failed => \A u, v \in Exist :
        data[u] = data[v] => \/ handle[u] = handle[v]
                             \/ "view" \in {kind[u], kind[v]}

\* A view (sub_vec, sub_vec_from) stays inside live memory until the last owner of that
\* memory gives it back; it is wrong from the start if the check complained, and may
\* become so by a resize.
ViewsHoldWhileOwned ==
    ~failed => \A v \in Exist : kind[v] = "view" /\ ~loose[v] =>
        /\ source[v] \in Live /\ data[v] = buf[source[v]]
        /\ (at[v] + length[v]) * SizeOf <= heap[data[v]]
=============================================================================
