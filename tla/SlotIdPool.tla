----------------------------- MODULE SlotIdPool -----------------------------
(***************************************************************************)
(* The pool of order ids (common/src/id/slot_id_pool.hpp).  One thread     *)
(* acquires ids from a private stack, refilled from a ring or with fresh   *)
(* ids; another thread releases ids into the ring.  The ring has no        *)
(* full check: release() relies on there being fewer ids than slots.       *)
(*                                                                         *)
(* The steps are the accesses to shared memory: a release writes the slot, *)
(* then publishes the tail; a refill loads the tail, copies slot by slot,  *)
(* then publishes the head.                                                *)
(***************************************************************************)
EXTENDS SlotId, Sequences

CONSTANTS
    CAPACITY,           \* slots of the ring; indices 1 .. CAPACITY - 1 are issued
    LOCAL_CACHE_SIZE,   \* size of the acquirer's stack
    FRESH_CHUNK_SIZE    \* ids generated at a time

ASSUME PoolAssumption ==
    /\ CAPACITY \in Nat /\ CAPACITY > 1
    /\ LOCAL_CACHE_SIZE \in Nat \ {0}
    /\ FRESH_CHUNK_SIZE \in Nat \ {0}

Index == 1 .. CAPACITY - 1
Slot == 0 .. CAPACITY - 1
Id == [index : Index, gen : Gen]

VARIABLES
    head, tail, sharedQueue,        \* the ring
    localStack, nextFreshIdx,       \* of the acquirer
    apc, h, t,      \* where the acquirer is (idle or copy), locals of refill()
    rpc, releasing, \* where the releaser is (idle or publish), its id
    held            \* history: ids acquired and not yet passed to release()

acquirer == <<localStack, nextFreshIdx, apc, h, t, head>>
releaser == <<tail, sharedQueue, rpc, releasing>>
vars == <<acquirer, releaser, held>>

\* (i + 1) & MASK
Succ(i) == IF i = CAPACITY - 1 THEN 0 ELSE i + 1

Lesser(a, b) == IF a < b THEN a ELSE b
-----------------------------------------------------------------------------
\* The common end of acquire() and refill(): pop the stack, if it holds an id.
PopFrom(stack) ==
    IF stack = <<>>
    THEN UNCHANGED held /\ localStack' = stack
    ELSE /\ held' = held \cup {stack[Len(stack)]}
         /\ localStack' = SubSeq(stack, 1, Len(stack) - 1)

acquire ==
    /\ apc = "idle"
    /\ localStack # <<>>
    /\ PopFrom(localStack)
    /\ UNCHANGED <<nextFreshIdx, apc, h, t, head, releaser>>

RefillLoad ==
    /\ apc = "idle"
    /\ localStack = <<>>
    /\ h' = head
    /\ t' = tail
    /\ apc' = "copy"
    /\ UNCHANGED <<localStack, nextFreshIdx, head, releaser, held>>

MoreToCopy == h # t /\ Len(localStack) < LOCAL_CACHE_SIZE

RefillCopy ==
    /\ apc = "copy"
    /\ MoreToCopy
    /\ localStack' = Append(localStack, sharedQueue[h])
    /\ h' = Succ(h)
    /\ UNCHANGED <<nextFreshIdx, apc, t, head, releaser, held>>

FreshLimit == Lesser(nextFreshIdx + FRESH_CHUNK_SIZE, CAPACITY)

\* The ids refill() generates when the ring was empty.
Fresh ==
    IF localStack # <<>> THEN <<>>
    ELSE [k \in 1 .. Lesser(FreshLimit - nextFreshIdx, LOCAL_CACHE_SIZE) |->
            Make(nextFreshIdx + k - 1, 1)]

FaultyForgetHead == UNCHANGED head
FaultyHeadSkipsRest == head' = t
StoreHead == head' = h

RefillReturn ==
    /\ apc = "copy"
    /\ ~MoreToCopy
    /\ StoreHead
    /\ nextFreshIdx' = nextFreshIdx + Len(Fresh)
    /\ PopFrom(localStack \o Fresh)
    /\ apc' = "idle"
    /\ UNCHANGED <<h, t, releaser>>
-----------------------------------------------------------------------------
\* release() of an id that was acquired, up to the store of the tail.
ReleaseWrite(id) ==
    /\ rpc = "idle"
    /\ held' = held \ {id}
    /\ releasing' = NextGen(id)
    /\ sharedQueue' = [sharedQueue EXCEPT ![tail] = NextGen(id)]
    /\ rpc' = "publish"
    /\ UNCHANGED <<acquirer, tail>>

ReleasePublish ==
    /\ rpc = "publish"
    /\ tail' = Succ(tail)
    /\ rpc' = "idle"
    /\ UNCHANGED <<acquirer, sharedQueue, releasing, held>>
-----------------------------------------------------------------------------
Init ==
    /\ head = 0 /\ tail = 0
    /\ sharedQueue = [s \in Slot |-> InvalidId]
    /\ localStack = <<>> /\ nextFreshIdx = 1
    /\ apc = "idle" /\ h = 0 /\ t = 0
    /\ rpc = "idle" /\ releasing = InvalidId
    /\ held = {}

Next ==
    \/ acquire \/ RefillLoad \/ RefillCopy \/ RefillReturn
    \/ \E id \in held : ReleaseWrite(id)
    \/ ReleasePublish

Spec == Init /\ [][Next]_vars
-----------------------------------------------------------------------------
(* Properties.                                                             *)

\* Every variable of the pool has its type.
TypeOK ==
    /\ head \in Slot /\ tail \in Slot /\ h \in Slot /\ t \in Slot
    /\ sharedQueue \in [Slot -> Id \cup {InvalidId}]
    /\ localStack \in Seq(Id) /\ Len(localStack) <= LOCAL_CACHE_SIZE
    /\ nextFreshIdx \in 1 .. CAPACITY
    /\ apc \in {"idle", "copy"} /\ rpc \in {"idle", "publish"}
    /\ releasing \in Id \cup {InvalidId}
    /\ held \subseteq Id

\* The slots from a up to but excluding b, going around the ring.
Between(a, b, s) == IF a <= b THEN a <= s /\ s < b ELSE a <= s \/ s < b

\* The slots whose ids the acquirer has not copied yet.
Front == IF apc = "copy" THEN h ELSE head
InRing(s) == s \in Slot /\ Between(Front, tail, s)

\* Where the pool has an id of index i: on the stack, in the ring, or in the
\* hands of the releaser.
OnStack(i) == \E k \in 1 .. Len(localStack) : localStack[k].index = i
Queued(i) == \E s \in Slot : InRing(s) /\ sharedQueue[s].index = i
InRelease(i) == rpc = "publish" /\ releasing.index = i
Held(i) == \E id \in held : id.index = i

\* acquire() never returns an index that is in use or will be returned again:
\* each index is in at most one place, and there once.
IssuedOnce ==
    /\ \A j, k \in 1 .. Len(localStack) : localStack[j].index = localStack[k].index => j = k
    /\ \A r, s \in Slot :
        InRing(r) /\ InRing(s) /\ sharedQueue[r].index = sharedQueue[s].index => r = s
    /\ \A a, b \in held : a.index = b.index => a = b
    /\ \A i \in Index :
        /\ OnStack(i) => ~Queued(i) /\ ~InRelease(i) /\ ~Held(i)
        /\ Queued(i) => ~InRelease(i) /\ ~Held(i)
        /\ InRelease(i) => ~Held(i)
        /\ OnStack(i) \/ Queued(i) \/ InRelease(i) \/ Held(i) => i < nextFreshIdx

\* No index gets lost between the threads: release() never runs into the ids
\* still queued (a full ring would look empty), and refill() skips none.
NoIdLost ==
    \A i \in 1 .. nextFreshIdx - 1 : OnStack(i) \/ Queued(i) \/ InRelease(i) \/ Held(i)

\* acquire() returns the invalid id only when every index is in use, or was
\* released after refill() had loaded the tail.
ExhaustedOnlyWhenAllInUse ==
    [][apc = "copy" /\ apc' = "idle" /\ held' = held =>
        /\ nextFreshIdx = CAPACITY
        /\ \A i \in Index :
            \/ Held(i) \/ InRelease(i)
            \/ \E s \in Slot : Between(t, tail, s) /\ sharedQueue[s].index = i]_vars

\* What holds inside the calls: the slot of the release in progress is written,
\* queued slots hold ids, and the tail refill() loaded is not ahead of the tail.
CallInv ==
    /\ rpc = "publish" => releasing \in Id /\ sharedQueue[tail] = releasing
    /\ \A s \in Slot : InRing(s) => sharedQueue[s] \in Id
    /\ apc = "copy" => t = tail \/ Between(h, tail, t)
=============================================================================
