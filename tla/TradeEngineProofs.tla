------------------------- MODULE TradeEngineProofs --------------------------
(***************************************************************************)
(* Machine-checked proof that EngineInv is an invariant of TradeEngine, for*)
(* pools and queues of any size and any number of orders.                  *)
(*                                                                         *)
(* EngineInv is inductive.  What carries it is InOnePlace: because an order*)
(* is in one queue, record or message at a time, a status that closes it   *)
(* leaves nothing behind that could find its index in use by another.      *)
(***************************************************************************)
EXTENDS TradeEngine, TLAPS

\* The time, in seconds, that a prover may take over a leaf.
USE SMTT(30), ZenonT(30)

\* Writing an order's system id keeps the shape of the table of orders.
LEMMA SetSysOId ==
  ASSUME NEW K, NEW N, NEW I, NEW S, NEW table \in [K -> [n : N, id : I, sysOId : S]],
         NEW k \in K, NEW v \in S
  PROVE  [table EXCEPT ![k].sysOId = v] \in [K -> [n : N, id : I, sysOId : S]]
  BY Zenon

-----------------------------------------------------------------------------
(* Queues as sets of their elements *)

\* What is left of a queue when its head is taken.
LEMMA TakeHead ==
  ASSUME NEW T, NEW s \in Seq(T), s # <<>>
  PROVE  /\ Head(s) \in T /\ Head(s) \in Elements(s) /\ Tail(s) \in Seq(T)
         /\ Len(Tail(s)) = Len(s) - 1 /\ Len(s) \in Nat /\ Len(s) >= 1
         /\ Elements(Tail(s)) \subseteq Elements(s)
         /\ \A k \in 1..Len(Tail(s)) : Tail(s)[k] = s[k + 1] /\ k + 1 \in 1..Len(s)
<1>1. Len(s) \in Nat /\ Len(s) >= 1 /\ Head(s) = s[1] /\ Tail(s) \in Seq(T) /\ Len(Tail(s)) = Len(s) - 1
  OBVIOUS
<1>2. \A k \in 1..Len(Tail(s)) : Tail(s)[k] = s[k + 1] /\ k + 1 \in 1..Len(s)
  BY <1>1
<1>3. Elements(Tail(s)) \subseteq Elements(s)
  BY <1>2, Zenon DEF Elements
<1>4. Head(s) \in Elements(s) /\ Head(s) \in T
  BY <1>1 DEF Elements
<1>. QED
  BY <1>1, <1>2, <1>3, <1>4, Zenon

\* In a queue with one entry for each order, the tail has none for the head's.
LEMMA TakeOnce ==
  ASSUME NEW T, NEW s \in Seq(T), s # <<>>, OncePerOrder(s)
  PROVE  OncePerOrder(Tail(s)) /\ \A e \in Elements(Tail(s)) : e.n # Head(s).n
<1>1. /\ Head(s) = s[1] /\ Len(s) \in Nat /\ Len(s) >= 1 /\ Len(Tail(s)) = Len(s) - 1
      /\ \A k \in 1..Len(Tail(s)) : Tail(s)[k] = s[k + 1] /\ k + 1 \in 1..Len(s)
  BY TakeHead
<1>2. OncePerOrder(Tail(s))
  <2> SUFFICES ASSUME NEW k \in 1..Len(Tail(s)), NEW l \in 1..Len(Tail(s)), Tail(s)[k].n = Tail(s)[l].n
               PROVE  k = l
    BY Zenon DEF OncePerOrder
  <2>1. k + 1 = l + 1
    BY <1>1 DEF OncePerOrder
  <2>. QED
    BY <1>1, <2>1
<1>3. \A k \in 1..Len(Tail(s)) : Tail(s)[k].n # s[1].n
  <2> SUFFICES ASSUME NEW k \in 1..Len(Tail(s)), Tail(s)[k].n = s[1].n
               PROVE  FALSE
    BY Zenon
  <2>1. k + 1 = 1
    BY <1>1 DEF OncePerOrder
  <2>. QED
    BY <1>1, <2>1
<1>. QED
  BY <1>1, <1>2, <1>3, Zenon DEF Elements

\* The elements of a queue with one more at its end.
LEMMA AddLast ==
  ASSUME NEW T, NEW s \in Seq(T), NEW e \in T
  PROVE  /\ Append(s, e) \in Seq(T) /\ Len(Append(s, e)) = Len(s) + 1 /\ Len(s) \in Nat
         /\ Elements(Append(s, e)) = Elements(s) \cup {e}
         /\ \A k \in 1..Len(s) : Append(s, e)[k] = s[k]
         /\ Append(s, e)[Len(s) + 1] = e
<1>1. /\ Append(s, e) \in Seq(T) /\ Len(Append(s, e)) = Len(s) + 1 /\ Len(s) \in Nat
      /\ \A k \in 1..Len(s) : Append(s, e)[k] = s[k]
      /\ Append(s, e)[Len(s) + 1] = e
  OBVIOUS
<1>2. Elements(Append(s, e)) = Elements(s) \cup {e}
  BY <1>1 DEF Elements
<1>. QED
  BY <1>1, <1>2, Zenon

\* An entry for an order that has none yet keeps one entry for each order.
LEMMA AddOnce ==
  ASSUME NEW T, NEW s \in Seq(T), NEW e \in T, OncePerOrder(s), \A f \in Elements(s) : f.n # e.n
  PROVE  OncePerOrder(Append(s, e))
<1>1. /\ Len(Append(s, e)) = Len(s) + 1 /\ Len(s) \in Nat
      /\ \A k \in 1..Len(s) : Append(s, e)[k] = s[k] /\ s[k] \in Elements(s)
      /\ Append(s, e)[Len(s) + 1] = e
  BY AddLast DEF Elements
<1>. QED
  BY <1>1 DEF OncePerOrder

\* The elements of a typed queue have its type.
LEMMA ElementsTyped ==
  ASSUME NEW T, NEW s \in Seq(T)
  PROVE  Elements(s) \subseteq T
  BY DEF Elements
-----------------------------------------------------------------------------
(* The invariant *)

\* Whatever is under way is about an open order.
LEMMA AllOpen ==
  ASSUME EngineInv, EngineConstants
  PROVE  /\ placed \in Nat /\ placed <= MAX_PLACED /\ MAX_PLACED \in Nat
         /\ Elements(up) \subseteq UpMessage /\ Elements(down) \subseteq DownStatus
         /\ \A m \in Elements(up) : m.n \in 1..placed /\ m.n \notin tclosed
         /\ \A r \in trecords : r.order.n \in 1..placed /\ (r.state # "Closing" => r.order.n \notin tclosed)
         /\ \A s \in Elements(down) : s.n \in 1..placed /\ s.n \notin tclosed
         /\ \A i \in Elements(toCancel) :
              i \in 1..IDS /\ torders[i].n \in 1..placed /\ torders[i].n \notin tclosed
<1> USE DEF EngineInv
<1>1. placed \in Nat /\ placed <= MAX_PLACED /\ MAX_PLACED \in Nat
  BY DEF EngineTypeOK, EngineConstants
<1>2. Elements(up) \subseteq UpMessage /\ Elements(down) \subseteq DownStatus
  BY ElementsTyped, Zenon DEF EngineTypeOK
<1>3. /\ \A r \in trecords : r.order.n \in 1..placed /\ (r.state # "Closing" => r.order.n \notin tclosed)
      /\ \A r \in trecords : Told(r) => r.state # "Closing"
  BY Zenon DEF StatusFindsItsOrder, Holds, Told
<1>4. \A m \in Elements(up) : m.n \in 1..placed /\ m.n \notin tclosed
  <2> SUFFICES ASSUME NEW m \in Elements(up) PROVE m.n \in 1..placed /\ m.n \notin tclosed
    BY Zenon
  <2>1. CASE m.action = "New"
    BY <2>1, Zenon DEF StatusFindsItsOrder, Holds
  <2>2. CASE m.action = "Cancel"
    BY <1>3, <2>2, Zenon DEF CancelNamesItsOrder, HasAccepted
  <2>3. m.action \in {"New", "Cancel"}
    BY <1>2, Zenon DEF UpMessage
  <2>. QED
    BY <2>1, <2>2, <2>3, Zenon
<1>5. \A s \in Elements(down) : s.n \in 1..placed /\ s.n \notin tclosed
  BY Zenon DEF StatusFindsItsOrder, Holds
<1>6. \A i \in Elements(toCancel) :
        i \in 1..IDS /\ torders[i].n \in 1..placed /\ torders[i].n \notin tclosed
  BY <1>3, Zenon DEF CancelNamesItsOrder, HasAccepted
<1>. QED
  BY <1>1, <1>2, <1>3, <1>4, <1>5, <1>6, Zenon

\* The numbers of the orders that are anywhere are in the domain of systemId.
LEMMA AllNumbered ==
  ASSUME EngineInv, EngineConstants
  PROVE  /\ \A m \in Elements(up) : m.n \in 1..MAX_PLACED
         /\ \A r \in trecords : r.order.n \in 1..MAX_PLACED
         /\ \A s \in Elements(down) : s.n \in 1..MAX_PLACED
         /\ \A i \in Elements(toCancel) : torders[i].n \in 1..MAX_PLACED
<1>1. placed \in Nat /\ placed <= MAX_PLACED /\ MAX_PLACED \in Nat
  BY AllOpen, Zenon
<1>2. 1..placed \subseteq 1..MAX_PLACED
  BY <1>1
<1>. QED
  BY <1>2, AllOpen, Zenon

\* Steps that only move the worker or a flag.
LEMMA NothingMoves ==
  ASSUME EngineInv, wpc' \in {"top", "new", "done"}, trading' \in BOOLEAN, tstop' \in BOOLEAN,
         UNCHANGED <<freeIds, torders, toCancel, stuck, placed, cancelled, tclosed, server, up, down>>
  PROVE  EngineInv'
<1> USE DEF EngineInv, server
<1>1. EngineTypeOK'
  BY Zenon DEF EngineTypeOK
<1>2. EngineIdsConserved' /\ SystemIdsConserved'
  BY Zenon DEF EngineIdsConserved, SystemIdsConserved
<1>3. InOnePlace'
  BY DEF InOnePlace, OncePerOrder, Elements
<1>4. CancelNamesItsOrder' /\ CancelledOnce'
  BY DEF CancelNamesItsOrder, CancelledOnce, HasAccepted, Elements
<1>5. StatusFindsItsOrder'
  BY DEF StatusFindsItsOrder, Holds, HasAccepted, Elements
<1>. QED
  BY <1>1, <1>2, <1>3, <1>4, <1>5, Zenon

\* sendNew takes an id of the pool, whose index no open order holds.
LEMMA NewKeeps ==
  ASSUME EngineInv, EngineConstants, sendNew
  PROVE  EngineInv'
<1> USE DEF EngineInv
<1>1. PICK id \in freeIds :
        /\ freeIds' = freeIds \ {id}
        /\ torders' = [torders EXCEPT ![id.index] = [n |-> placed + 1, id |-> id, sysOId |-> id]]
        /\ up' = Append(up, [action |-> "New", id |-> id, n |-> placed + 1])
  BY Zenon DEF sendNew
<1>m. PICK m : m = [action |-> "New", id |-> id, n |-> placed + 1]
  BY Zenon
<1>2. /\ placed < MAX_PLACED /\ placed' = placed + 1 /\ wpc' = "top"
      /\ trading' = trading /\ tstop' = tstop /\ toCancel' = toCancel /\ stuck' = stuck
      /\ cancelled' = cancelled /\ tclosed' = tclosed /\ down' = down
      /\ systemPool' = systemPool /\ trecords' = trecords /\ systemId' = systemId
  BY Zenon DEF sendNew, server
<1>3. /\ id \in EngineId(IDS) /\ id.index \in 1..IDS /\ IsValid(id)
  <2>1. id \in EngineId(IDS)
    BY Zenon DEF EngineTypeOK
  <2>. QED
    BY <2>1, MaxGenAssumption DEF EngineId, Gen, IsValid
<1>4. placed + 1 \in 1..MAX_PLACED /\ m \in UpMessage /\ m.n = placed + 1 /\ m.id = id /\ m.action = "New"
  BY <1>2, <1>3, <1>m, AllOpen DEF UpMessage
<1>5. up' \in Seq(UpMessage) /\ Elements(up)' = Elements(up) \cup {m}
  BY <1>1, <1>4, <1>m, AddLast DEF EngineTypeOK
<1>6. Elements(down)' = Elements(down) /\ Elements(toCancel)' = Elements(toCancel)
  BY <1>2, Zenon DEF Elements
<1>7. /\ torders'[id.index] = [n |-> placed + 1, id |-> id, sysOId |-> id]
      /\ \A i \in 1..IDS : i # id.index => torders'[i] = torders[i]
  BY <1>1, <1>3, Zenon DEF EngineTypeOK
<1>8. \A i \in 1..IDS : torders[i].n \in 1..placed /\ torders[i].n \notin tclosed => i # id.index
  <2> SUFFICES ASSUME torders[id.index].n \in 1..placed, torders[id.index].n \notin tclosed PROVE FALSE
    BY <1>3, Zenon
  <2>1. torders[id.index].n # 0
    BY AllOpen
  <2>2. {x \in freeIds : x.index = id.index} = {}
    BY <1>3, <2>1, Zenon DEF EngineIdsConserved
  <2>. QED
    BY <2>2, Zenon
<1>9. \A n, x : Holds(n, x) => Holds(n, x)'
  <2> SUFFICES ASSUME NEW n, NEW x, Holds(n, x) PROVE Holds(n, x)'
    BY Zenon
  <2>1. x.index \in 1..IDS
    BY Zenon DEF Holds, EngineId
  <2>2. torders'[x.index] = torders[x.index]
    BY <1>7, <1>8, <2>1, Zenon DEF Holds
  <2>3. n \in 1..placed'
    BY <1>2, AllOpen DEF Holds
  <2>. QED
    BY <1>2, <2>2, <2>3, Zenon DEF Holds
<1>10. Holds(m.n, m.id)'
  <2>1. m.n \in 1..placed' /\ m.n \notin tclosed'
    BY <1>2, <1>4, AllOpen DEF EngineTypeOK
  <2>2. torders'[m.id.index].n = m.n /\ torders'[m.id.index].id = m.id /\ torders'[m.id.index].sysOId = m.id
    BY <1>4, <1>7
  <2>. QED
    BY <1>3, <1>4, <2>1, <2>2, Zenon DEF Holds
<1>11. \A i \in Elements(toCancel) : i \in 1..IDS /\ torders'[i] = torders[i]
  BY <1>7, <1>8, AllOpen, Zenon
<1>12. \A n : HasAccepted(n)' <=> HasAccepted(n)
  BY <1>2, Zenon DEF HasAccepted
<1>13. EngineTypeOK'
  <2>1. torders' \in [1..IDS -> [n : 0..placed', id : EngineId(IDS) \cup {InvalidId},
                                sysOId : EngineId(SYSTEM_IDS) \cup EngineId(IDS) \cup {InvalidId}]]
    <3>1. torders \in [1..IDS -> [n : 0..placed', id : EngineId(IDS) \cup {InvalidId},
                                 sysOId : EngineId(SYSTEM_IDS) \cup EngineId(IDS) \cup {InvalidId}]]
      BY <1>2, AllOpen DEF EngineTypeOK
    <3>2. placed + 1 \in 0..placed'
      BY <1>2, AllOpen
    <3>. QED
      BY <1>1, <1>3, <3>1, <3>2, Zenon
  <2>2. freeIds' \subseteq EngineId(IDS) /\ placed' \in 0..MAX_PLACED /\ tclosed' \subseteq 1..placed'
    BY <1>1, <1>2, AllOpen DEF EngineTypeOK
  <2>. QED
    BY <1>2, <1>5, <2>1, <2>2, Zenon DEF EngineTypeOK
<1>14. EngineIdsConserved'
  <2>1. ASSUME NEW i \in 1..IDS
        PROVE  LET free == {x \in freeIds' : x.index = i}
               IN  IF torders'[i].n # 0 /\ torders'[i].n \notin tclosed' THEN free = {}
                   ELSE \E x \in freeIds' : free = {x}
    <3>1. CASE i = id.index
      <4>1. PICK x \in freeIds : {y \in freeIds : y.index = i} = {x}
        BY <3>1, Zenon DEF EngineIdsConserved
      <4>2. {y \in freeIds' : y.index = i} = {}
        BY <1>1, <3>1, <4>1, Zenon
      <4>3. torders'[i].n = placed + 1 /\ placed + 1 # 0 /\ placed + 1 \notin tclosed'
        BY <1>2, <1>4, <1>7, <1>10, <3>1, AllOpen DEF Holds
      <4>. QED
        BY <4>2, <4>3, Zenon
    <3>2. CASE i # id.index
      <4>1. torders'[i] = torders[i] /\ {y \in freeIds' : y.index = i} = {y \in freeIds : y.index = i}
        BY <1>1, <1>7, <3>2, Zenon
      <4>2. \A x \in freeIds : {y \in freeIds : y.index = i} = {x} => x \in freeIds'
        BY <1>1, <3>2, Zenon
      <4>. QED
        BY <1>2, <4>1, <4>2, Zenon DEF EngineIdsConserved
    <3>. QED
      BY <3>1, <3>2, Zenon
  <2>2. ASSUME NEW i \in 1..IDS, NEW j \in 1..IDS, torders'[i].n = torders'[j].n, torders'[i].n # 0
        PROVE  i = j
    <3>1. \A k \in 1..IDS : torders[k].n \in 0..placed /\ placed + 1 \notin 0..placed
      BY AllOpen DEF EngineTypeOK
    <3>. QED
      BY <1>7, <2>2, <3>1 DEF EngineIdsConserved
  <2>. QED
    BY <2>1, <2>2, Zenon DEF EngineIdsConserved
<1>15. SystemIdsConserved'
  BY <1>2, Zenon DEF SystemIdsConserved
<1>16. /\ \A x \in Elements(up) : x.n # m.n
       /\ \A s \in Elements(down) : s.n # m.n
       /\ \A r \in trecords : r.order.n # m.n
       /\ \A i \in Elements(toCancel) : torders[i].n # m.n
  BY <1>4, AllOpen
<1>17. InOnePlace'
  <2>1. OncePerOrder(up')
    BY <1>1, <1>4, <1>16, <1>m, AddOnce DEF EngineTypeOK, InOnePlace
  <2>2. OncePerOrder(down') /\ \A k, l \in 1..Len(toCancel') : toCancel'[k] = toCancel'[l] => k = l
    BY <1>2 DEF InOnePlace
  <2>3. \A x \in Elements(up)' :
          /\ \A s \in Elements(down)' : x.n # s.n
          /\ \A i \in Elements(toCancel)' : x.n # torders'[i].n
          /\ \A r \in trecords' : x.n = r.order.n => x.action = "Cancel" /\ Told(r)
    BY <1>2, <1>5, <1>6, <1>11, <1>16 DEF InOnePlace
  <2>4. \A s \in Elements(down)' :
          /\ \A i \in Elements(toCancel)' : s.n # torders'[i].n
          /\ \A r \in trecords' : s.n = r.order.n => Fits(s, r)
    BY <1>2, <1>6, <1>11 DEF InOnePlace
  <2>5. \A i \in Elements(toCancel)' : \A r \in trecords' : torders'[i].n = r.order.n => Told(r)
    BY <1>2, <1>6, <1>11 DEF InOnePlace
  <2>. QED
    BY <2>1, <2>2, <2>3, <2>4, <2>5, Zenon DEF InOnePlace, OncePerOrder
<1>18. CancelNamesItsOrder'
  BY <1>2, <1>4, <1>5, <1>6, <1>11, <1>12 DEF CancelNamesItsOrder
<1>19. CancelledOnce'
  <2>1. cancelled[placed + 1] = 0
    BY <1>4, AllOpen DEF CancelledOnce
  <2>2. \A n \in 1..MAX_PLACED : cancelled'[n] \in {0, 1} /\ (n > placed' => cancelled'[n] = 0)
    BY <1>2, AllOpen DEF CancelledOnce
  <2>3. \A x \in Elements(up)' : x.action = "New" => cancelled'[x.n] = 0
    BY <1>2, <1>4, <1>5, <2>1, Zenon DEF CancelledOnce
  <2>4. /\ \A r \in trecords' : r.state = "New" => cancelled'[r.order.n] = 0
        /\ \A s \in Elements(down)' : s.state = "Accepted" => cancelled'[s.n] = 0
        /\ \A i \in Elements(toCancel)' : cancelled'[torders'[i].n] = 0
    BY <1>2, <1>6, <1>11, Zenon DEF CancelledOnce
  <2>. QED
    BY <2>2, <2>3, <2>4, Zenon DEF CancelledOnce
<1>20. StatusFindsItsOrder'
  <2>1. \A x \in Elements(up)' : x.action = "New" => Holds(x.n, x.id)'
    BY <1>4, <1>5, <1>9, <1>10, Zenon DEF StatusFindsItsOrder
  <2>2. \A r \in trecords' : r.order.n \in 1..placed' /\ (r.state # "Closing" => Holds(r.order.n, r.order.id)')
    BY <1>2, <1>9, AllOpen DEF StatusFindsItsOrder
  <2>3. \A s \in Elements(down)' :
           /\ Holds(s.n, s.id)'
           /\ s.state \notin Final => s.sysOId = systemId'[s.n] /\ HasAccepted(s.n)'
    BY <1>2, <1>6, <1>9, <1>12, Zenon DEF StatusFindsItsOrder
  <2>. QED
    BY <1>2, <2>1, <2>2, <2>3, Zenon DEF StatusFindsItsOrder
<1>. QED
  BY <1>13, <1>14, <1>15, <1>17, <1>18, <1>19, <1>20, Zenon
\* sendCancel: the queued index becomes a message that names its order.
LEMMA CancelKeeps ==
  ASSUME EngineInv, EngineConstants, sendCancel
  PROVE  EngineInv'
<1> USE DEF EngineInv
<1>i. PICK i : i = Head(toCancel)
  BY Zenon
<1>m. PICK m : m = [action |-> "Cancel", id |-> torders[i].sysOId, n |-> torders[i].n]
  BY Zenon
<1>1. /\ toCancel # <<>> /\ toCancel' = Tail(toCancel) /\ up' = Append(up, m)
      /\ cancelled' = [cancelled EXCEPT ![m.n] = @ + 1]
      /\ wpc' = wpc /\ trading' = trading /\ tstop' = tstop /\ freeIds' = freeIds /\ torders' = torders /\ stuck' = stuck
      /\ placed' = placed /\ tclosed' = tclosed /\ down' = down
      /\ systemPool' = systemPool /\ trecords' = trecords /\ systemId' = systemId
  BY <1>i, <1>m, Zenon DEF sendCancel, server
<1>2. /\ i \in Elements(toCancel) /\ Elements(toCancel)' \subseteq Elements(toCancel)
      /\ toCancel' \in Seq(1..IDS) /\ Len(toCancel') = Len(toCancel) - 1 /\ Len(toCancel) \in Nat
      /\ \A k \in 1..Len(toCancel') : toCancel'[k] = toCancel[k + 1] /\ k + 1 \in 1..Len(toCancel)
      /\ i = toCancel[1] /\ 1 \in 1..Len(toCancel)
  <2>1. toCancel \in Seq(1..IDS)
    BY Zenon DEF EngineTypeOK
  <2>2. Elements(toCancel)' = Elements(Tail(toCancel))
    BY <1>1, Zenon DEF Elements
  <2>. QED
    BY <1>1, <1>i, <2>1, <2>2, TakeHead
<1>3. \A j \in Elements(toCancel)' : j # i
  <2>1. \A k \in 1..Len(toCancel') : toCancel'[k] # i
    BY <1>2 DEF InOnePlace
  <2>. QED
    BY <2>1, Zenon DEF Elements
<1>4. i \in 1..IDS /\ m.n \in 1..placed /\ m.n = torders[i].n /\ m.action = "Cancel"
  BY <1>2, <1>m, AllOpen, Zenon
<1>5. m.id = systemId[m.n] /\ HasAccepted(m.n) /\ cancelled[m.n] = 0
  BY <1>2, <1>m, Zenon DEF CancelNamesItsOrder, CancelledOnce
<1>6. m \in UpMessage
  <2>1. m.n \in 1..MAX_PLACED
    BY <1>4, AllOpen
  <2>2. PICK r \in trecords : r.order.n = m.n
    BY <1>5, Zenon DEF HasAccepted
  <2>3. m.id = r.id /\ r.id \in EngineId(SYSTEM_IDS)
    BY <1>5, <2>2, Zenon DEF SystemIdsConserved, EngineTypeOK
  <2>. QED
    BY <1>m, <2>1, <2>3, Zenon DEF UpMessage
<1>7. up' \in Seq(UpMessage) /\ Elements(up)' = Elements(up) \cup {m}
  <2>1. Elements(up)' = Elements(Append(up, m))
    BY <1>1, Zenon DEF Elements
  <2>. QED
    BY <1>1, <1>6, <2>1, AddLast DEF EngineTypeOK
<1>8. Elements(down)' = Elements(down)
  BY <1>1, Zenon DEF Elements
<1>9. cancelled'[m.n] = 1 /\ \A n \in 1..MAX_PLACED : n # m.n => cancelled'[n] = cancelled[n]
  BY <1>1, <1>4, <1>5, AllOpen DEF EngineTypeOK
<1>10. (\A n, x : Holds(n, x)' <=> Holds(n, x)) /\ (\A n : HasAccepted(n)' <=> HasAccepted(n))
  BY <1>1, Zenon DEF Holds, HasAccepted
<1>11. /\ \A x \in Elements(up) : x.n # m.n
       /\ \A s \in Elements(down) : s.n # m.n
       /\ \A r \in trecords : r.order.n = m.n => Told(r)
  <2>1. \A x \in Elements(up) : x.n # torders[i].n
    BY <1>2 DEF InOnePlace
  <2>2. \A s \in Elements(down) : s.n # torders[i].n
    BY <1>2 DEF InOnePlace
  <2>3. \A r \in trecords : torders[i].n = r.order.n => Told(r)
    BY <1>2, Zenon DEF InOnePlace
  <2>. QED
    BY <1>4, <2>1, <2>2, <2>3, Zenon
<1>12. \A j \in Elements(toCancel)' : torders[j].n # m.n
  BY <1>2, <1>3, <1>4, AllOpen DEF EngineIdsConserved
<1>13. EngineTypeOK'
  <2>1. cancelled' \in [1..MAX_PLACED -> Nat]
    <3>1. cancelled \in [1..MAX_PLACED -> Nat] /\ m.n \in 1..MAX_PLACED
      BY <1>4, AllOpen DEF EngineTypeOK
    <3>2. cancelled[m.n] + 1 \in Nat
      BY <1>5
    <3>3. cancelled' = [cancelled EXCEPT ![m.n] = cancelled[m.n] + 1]
      BY <1>1, Zenon
    <3>. QED
      BY <3>1, <3>2, <3>3, Zenon
  <2>2. Len(toCancel') <= CANCELS
    BY <1>2 DEF EngineTypeOK, EngineConstants
  <2>. QED
    BY <1>1, <1>2, <1>7, <2>1, <2>2, Zenon DEF EngineTypeOK
<1>14. EngineIdsConserved' /\ SystemIdsConserved'
  BY <1>1, Zenon DEF EngineIdsConserved, SystemIdsConserved
<1>15. InOnePlace'
  <2>1. OncePerOrder(up')
    BY <1>1, <1>6, <1>11, AddOnce, Zenon DEF EngineTypeOK, InOnePlace
  <2>2. \A k, l \in 1..Len(toCancel') : toCancel'[k] = toCancel'[l] => k = l
    <3> SUFFICES ASSUME NEW k \in 1..Len(toCancel'), NEW l \in 1..Len(toCancel'), toCancel'[k] = toCancel'[l]
                 PROVE  k = l
      BY Zenon
    <3>1. k + 1 = l + 1
      BY <1>2 DEF InOnePlace
    <3>. QED
      BY <1>2, <3>1
  <2>3. \A x \in Elements(up)' :
          /\ \A s \in Elements(down)' : x.n # s.n
          /\ \A j \in Elements(toCancel)' : x.n # torders'[j].n
          /\ \A r \in trecords' : x.n = r.order.n => x.action = "Cancel" /\ Told(r)
    BY <1>1, <1>2, <1>4, <1>7, <1>8, <1>11, <1>12 DEF InOnePlace
  <2>4. /\ OncePerOrder(down')
        /\ \A s \in Elements(down)' :
             /\ \A j \in Elements(toCancel)' : s.n # torders'[j].n
             /\ \A r \in trecords' : s.n = r.order.n => Fits(s, r)
        /\ \A j \in Elements(toCancel)' : \A r \in trecords' : torders'[j].n = r.order.n => Told(r)
    BY <1>1, <1>2, <1>8 DEF InOnePlace
  <2>. QED
    BY <2>1, <2>2, <2>3, <2>4, Zenon DEF InOnePlace, OncePerOrder
<1>16. CancelNamesItsOrder'
  BY <1>1, <1>2, <1>5, <1>7, <1>10, Zenon DEF CancelNamesItsOrder
<1>17. CancelledOnce'
  <2>1. \A n \in 1..MAX_PLACED : cancelled'[n] \in {0, 1} /\ (n > placed' => cancelled'[n] = 0)
    BY <1>1, <1>4, <1>9, AllOpen DEF CancelledOnce
  <2>2. \A x \in Elements(up)' : x.action = "New" => cancelled'[x.n] = 0
    <3>1. \A x \in Elements(up) : x.n \in 1..MAX_PLACED
      BY AllOpen
    <3>. QED
      BY <1>4, <1>7, <1>9, <1>11, <3>1, Zenon DEF CancelledOnce
  <2>3. \A r \in trecords' : r.state = "New" => cancelled'[r.order.n] = 0
    <3>1. \A r \in trecords : r.order.n \in 1..MAX_PLACED
      BY AllOpen
    <3>. QED
      BY <1>1, <1>9, <1>11, <3>1, Zenon DEF CancelledOnce, Told
  <2>4. \A s \in Elements(down)' : s.state = "Accepted" => cancelled'[s.n] = 0
    <3>1. \A s \in Elements(down) : s.n \in 1..MAX_PLACED
      BY AllOpen
    <3>. QED
      BY <1>8, <1>9, <1>11, <3>1, Zenon DEF CancelledOnce
  <2>5. \A j \in Elements(toCancel)' : cancelled'[torders'[j].n] = 0
    <3>1. \A j \in Elements(toCancel)' : torders[j].n \in 1..MAX_PLACED
      BY <1>2, AllOpen
    <3>. QED
      BY <1>1, <1>2, <1>9, <1>12, <3>1 DEF CancelledOnce
  <2>. QED
    BY <2>1, <2>2, <2>3, <2>4, <2>5, Zenon DEF CancelledOnce
<1>18. StatusFindsItsOrder'
  BY <1>1, <1>4, <1>7, <1>8, <1>10, Zenon DEF StatusFindsItsOrder
<1>. QED
  BY <1>13, <1>14, <1>15, <1>16, <1>17, <1>18, Zenon

\* A new order reaches the gateway and is rejected.
LEMMA RejectKeeps ==
  ASSUME EngineInv, EngineConstants, GatewayRejects
  PROVE  EngineInv'
<1> USE DEF EngineInv
<1>m. PICK m : m = Head(up)
  BY Zenon
<1>s. PICK s : s = Status(m, InvalidId, "Rejected")
  BY Zenon
<1>1. /\ up # <<>> /\ m.action = "New" /\ up' = Tail(up) /\ down' = Append(down, s)
      /\ wpc' = wpc /\ trading' = trading /\ tstop' = tstop /\ freeIds' = freeIds /\ torders' = torders /\ stuck' = stuck
      /\ toCancel' = toCancel /\ placed' = placed /\ cancelled' = cancelled /\ tclosed' = tclosed
      /\ systemPool' = systemPool /\ trecords' = trecords /\ systemId' = systemId
  BY <1>m, <1>s, Zenon DEF GatewayRejects, Receive, client, server
<1>2. /\ m \in Elements(up) /\ m \in UpMessage /\ Elements(up)' \subseteq Elements(up) /\ up' \in Seq(UpMessage)
      /\ OncePerOrder(up') /\ \A x \in Elements(up)' : x.n # m.n
  <2>1. up \in Seq(UpMessage) /\ OncePerOrder(up) /\ Elements(up)' = Elements(Tail(up))
    BY <1>1 DEF EngineTypeOK, InOnePlace, Elements
  <2>. QED
    BY <1>1, <1>m, <2>1, TakeHead, TakeOnce, Zenon
<1>3. Holds(m.n, m.id) /\ s.n = m.n /\ s.id = m.id /\ s.state = "Rejected" /\ s.state \in Final
  BY <1>1, <1>2, <1>s, Zenon DEF StatusFindsItsOrder, Status, Final
<1>4. s \in DownStatus
  BY <1>2, <1>3, <1>s, Zenon DEF DownStatus, UpMessage, Holds, Status, Final
<1>5. Elements(down)' = Elements(down) \cup {s} /\ down' \in Seq(DownStatus)
  <2>1. Elements(down)' = Elements(Append(down, s))
    BY <1>1, Zenon DEF Elements
  <2>. QED
    BY <1>1, <1>4, <2>1, AddLast DEF EngineTypeOK
<1>6. /\ \A d \in Elements(down) : d.n # s.n
      /\ \A i \in Elements(toCancel) : torders[i].n # s.n
      /\ \A r \in trecords : r.order.n # s.n
  BY <1>1, <1>2, <1>3 DEF InOnePlace
<1>7. (\A n, x : Holds(n, x)' <=> Holds(n, x)) /\ (\A n : HasAccepted(n)' <=> HasAccepted(n))
      /\ Elements(toCancel)' = Elements(toCancel)
  BY <1>1, Zenon DEF Holds, HasAccepted, Elements
<1>8. EngineTypeOK'
  BY <1>1, <1>2, <1>5, Zenon DEF EngineTypeOK
<1>9. EngineIdsConserved' /\ SystemIdsConserved'
  BY <1>1, Zenon DEF EngineIdsConserved, SystemIdsConserved
<1>10. InOnePlace'
  <2>1. OncePerOrder(down')
    BY <1>1, <1>4, <1>6, AddOnce, Zenon DEF EngineTypeOK, InOnePlace
  <2>2. \A x \in Elements(up)' :
          /\ \A d \in Elements(down)' : x.n # d.n
          /\ \A i \in Elements(toCancel)' : x.n # torders'[i].n
          /\ \A r \in trecords' : x.n = r.order.n => x.action = "Cancel" /\ Told(r)
    BY <1>1, <1>2, <1>3, <1>5, <1>7 DEF InOnePlace
  <2>3. \A d \in Elements(down)' :
          /\ \A i \in Elements(toCancel)' : d.n # torders'[i].n
          /\ \A r \in trecords' : d.n = r.order.n => Fits(d, r)
    BY <1>1, <1>5, <1>6, <1>7 DEF InOnePlace
  <2>4. /\ \A k, l \in 1..Len(toCancel') : toCancel'[k] = toCancel'[l] => k = l
        /\ \A i \in Elements(toCancel)' : \A r \in trecords' : torders'[i].n = r.order.n => Told(r)
    BY <1>1, <1>7 DEF InOnePlace
  <2>. QED
    BY <1>2, <2>1, <2>2, <2>3, <2>4, Zenon DEF InOnePlace, OncePerOrder
<1>11. CancelNamesItsOrder'
  BY <1>1, <1>2, <1>7, Zenon DEF CancelNamesItsOrder
<1>12. CancelledOnce'
  BY <1>1, <1>2, <1>3, <1>5, <1>7, Zenon DEF CancelledOnce
<1>13. StatusFindsItsOrder'
  BY <1>1, <1>2, <1>3, <1>5, <1>7, Zenon DEF StatusFindsItsOrder
<1>. QED
  BY <1>8, <1>9, <1>10, <1>11, <1>12, <1>13, Zenon
\* The next status finds the record of its order, and is the only entry about it.
LEMMA NextStatus ==
  ASSUME EngineInv, EngineConstants, down # <<>>, down' = Tail(down), NEW s, s = Head(down)
  PROVE  /\ s \in Elements(down) /\ s \in DownStatus /\ Holds(s.n, s.id) /\ s.id.index \in 1..IDS /\ IsValid(s.id)
         /\ Elements(down)' \subseteq Elements(down) /\ down' \in Seq(DownStatus) /\ OncePerOrder(down')
         /\ \A d \in Elements(down)' : d.n # s.n
         /\ \A x \in Elements(up) : x.n # s.n
         /\ \A i \in Elements(toCancel) : torders[i].n # s.n /\ i # s.id.index
         /\ \A r \in trecords : r.order.n = s.n => Fits(s, r)
<1> USE DEF EngineInv
<1>1. down \in Seq(DownStatus) /\ OncePerOrder(down) /\ Elements(down)' = Elements(Tail(down))
  <2>1. down \in Seq(DownStatus) /\ OncePerOrder(down)
    BY Zenon DEF EngineTypeOK, InOnePlace
  <2>2. Elements(down)' = Elements(down')
    BY Zenon DEF Elements
  <2> QED
    BY <2>1, <2>2, Zenon
<1>2. /\ s \in Elements(down) /\ s \in DownStatus
      /\ Elements(down)' \subseteq Elements(down) /\ down' \in Seq(DownStatus) /\ OncePerOrder(down')
      /\ \A d \in Elements(down)' : d.n # s.n
  BY <1>1, TakeHead, TakeOnce, Zenon
<1>3. Holds(s.n, s.id)
  BY <1>2, Zenon DEF StatusFindsItsOrder
<1>4. s.id.index \in 1..IDS /\ IsValid(s.id)
  BY <1>3, MaxGenAssumption DEF Holds, EngineId, Gen, IsValid
<1>5. \A x \in Elements(up) : x.n # s.n
  BY <1>2, Zenon DEF InOnePlace
<1>6. \A i \in Elements(toCancel) : torders[i].n # s.n
  BY <1>2, Zenon DEF InOnePlace
<1>7. \A i \in Elements(toCancel) : i # s.id.index
  BY <1>3, <1>6, Zenon DEF Holds
<1>8. \A r \in trecords : r.order.n = s.n => Fits(s, r)
  BY <1>2, Zenon DEF InOnePlace
<1>. QED
  BY <1>2, <1>3, <1>4, <1>5, <1>6, <1>7, <1>8, Zenon

\* A status that is ignored, which only a stop request does.
LEMMA IgnoredKeeps ==
  ASSUME EngineInv, EngineConstants, HandleStatus, StatusIgnored(Head(down))
  PROVE  EngineInv'
<1> USE DEF EngineInv
<1>s. PICK s : s = Head(down)
  BY Zenon
<1>1. /\ down # <<>> /\ down' = Tail(down) /\ stuck' = ~tstop
      /\ wpc' = wpc /\ trading' = trading /\ tstop' = tstop /\ placed' = placed /\ cancelled' = cancelled
      /\ systemPool' = systemPool /\ trecords' = trecords /\ systemId' = systemId /\ up' = up
      /\ torders' = torders /\ toCancel' = toCancel /\ freeIds' = freeIds /\ tclosed' = tclosed
  BY Zenon DEF HandleStatus, StatusIgnored, server
<1>2. /\ Elements(down)' \subseteq Elements(down) /\ down' \in Seq(DownStatus) /\ OncePerOrder(down')
      /\ Holds(s.n, s.id) /\ IsValid(s.id)
  BY <1>1, <1>s, NextStatus, Zenon
<1>3. stuck' = FALSE /\ stuck' \in BOOLEAN
  <2>1. IsValid(torders[s.id.index].sysOId)
    BY <1>2, Zenon DEF Holds
  <2>2. tstop
    BY <1>2, <1>s, <2>1, Zenon DEF StatusIgnored
  <2>. QED
    BY <1>1, <2>2, Zenon
<1>4. /\ (\A n, x : Holds(n, x)' <=> Holds(n, x)) /\ (\A n : HasAccepted(n)' <=> HasAccepted(n))
      /\ Elements(toCancel)' = Elements(toCancel) /\ Elements(up)' = Elements(up)
  BY <1>1, Zenon DEF Holds, HasAccepted, Elements
<1>5. EngineTypeOK'
  BY <1>1, <1>2, <1>3, Zenon DEF EngineTypeOK
<1>6. EngineIdsConserved' /\ SystemIdsConserved'
  BY <1>1 DEF EngineIdsConserved, SystemIdsConserved
<1>7. InOnePlace'
  <2>1. OncePerOrder(up) /\ OncePerOrder(up')
    BY <1>1, Zenon DEF InOnePlace
  <2>2. \A k, l \in 1..Len(toCancel') : toCancel'[k] = toCancel'[l] => k = l
    BY <1>1, Zenon DEF InOnePlace
  <2>3. \A m \in Elements(up)' :
          /\ \A i \in Elements(toCancel)' : m.n # torders'[i].n
          /\ \A r \in trecords' : m.n = r.order.n => m.action = "Cancel" /\ Told(r)
    BY <1>1, <1>4, Zenon DEF InOnePlace
  <2>4. \A m \in Elements(up)' : \A d \in Elements(down)' : m.n # d.n
    BY <1>2, <1>4, Zenon DEF InOnePlace
  <2>5. \A d \in Elements(down)' : \A i \in Elements(toCancel)' : d.n # torders'[i].n
    BY <1>1, <1>2, <1>4, Zenon DEF InOnePlace
  <2>6. \A d \in Elements(down)' : \A r \in trecords' : d.n = r.order.n => Fits(d, r)
    BY <1>1, <1>2, Zenon DEF InOnePlace
  <2>7. \A i \in Elements(toCancel)' : \A r \in trecords' : torders'[i].n = r.order.n => Told(r)
    BY <1>1, <1>4, Zenon DEF InOnePlace
  <2>. QED
    BY <1>2, <2>1, <2>2, <2>3, <2>4, <2>5, <2>6, <2>7, Zenon DEF InOnePlace, OncePerOrder
<1>8. CancelNamesItsOrder'
  BY <1>1, <1>4, Zenon DEF CancelNamesItsOrder
<1>9. CancelledOnce'
  BY <1>1, <1>2, <1>4, Zenon DEF CancelledOnce
<1>10. StatusFindsItsOrder'
  BY <1>1, <1>2, <1>3, <1>4, Zenon DEF StatusFindsItsOrder
<1>. QED
  BY <1>5, <1>6, <1>7, <1>8, <1>9, <1>10, Zenon

\* Accepted or Partial: the record learns its system id, and may be queued.
LEMMA OpensKeeps ==
  ASSUME EngineInv, EngineConstants, HandleStatus, StatusOpens(Head(down))
  PROVE  EngineInv'
<1> USE DEF EngineInv
<1>s. PICK s : s = Head(down)
  BY Zenon
<1>c. PICK c : c = s.id.index
  BY Zenon
<1>1. /\ down # <<>> /\ down' = Tail(down) /\ stuck' = stuck
      /\ wpc' = wpc /\ trading' = trading /\ tstop' = tstop /\ placed' = placed /\ cancelled' = cancelled
      /\ systemPool' = systemPool /\ trecords' = trecords /\ systemId' = systemId /\ up' = up
      /\ freeIds' = freeIds /\ tclosed' = tclosed
      /\ torders' = [torders EXCEPT ![c].sysOId = s.sysOId]
      /\ s.state \in {"Accepted", "Partial"} /\ s.state \notin Final
      /\ toCancel' = toCancel \/ (s.state = "Accepted" /\ Len(toCancel) < CANCELS /\ toCancel' = Append(toCancel, c))
  BY <1>s, <1>c, Zenon DEF HandleStatus, StatusOpens, server, Final
<1>2. /\ s \in Elements(down) /\ s \in DownStatus /\ Holds(s.n, s.id) /\ c \in 1..IDS
      /\ Elements(down)' \subseteq Elements(down) /\ down' \in Seq(DownStatus) /\ OncePerOrder(down')
      /\ \A d \in Elements(down)' : d.n # s.n
      /\ \A x \in Elements(up) : x.n # s.n
      /\ \A i \in Elements(toCancel) : torders[i].n # s.n /\ i # c
      /\ \A r \in trecords : r.order.n = s.n => Told(r)
  BY <1>1, <1>s, <1>c, NextStatus DEF Fits
<1>3. s.sysOId = systemId[s.n] /\ HasAccepted(s.n)
  BY <1>1, <1>2, Zenon DEF StatusFindsItsOrder
<1>4. s.sysOId \in EngineId(SYSTEM_IDS) /\ IsValid(s.sysOId)
  <2>1. PICK r \in trecords : r.order.n = s.n
    BY <1>3, Zenon DEF HasAccepted
  <2>2. s.sysOId = r.id /\ r.id \in EngineId(SYSTEM_IDS)
    BY <1>3, <2>1, Zenon DEF SystemIdsConserved, EngineTypeOK
  <2>. QED
    BY <2>2, MaxGenAssumption DEF EngineId, Gen, IsValid
<1>5. /\ \A i \in 1..IDS : torders'[i].n = torders[i].n /\ torders'[i].id = torders[i].id
      /\ \A i \in 1..IDS : i # c => torders'[i].sysOId = torders[i].sysOId
      /\ torders'[c].sysOId = s.sysOId /\ torders[c].n = s.n
  <2>1. torders'[c] = [torders[c] EXCEPT !.sysOId = s.sysOId] /\ \A i \in 1..IDS : i # c => torders'[i] = torders[i]
    BY <1>1, <1>2, Zenon DEF EngineTypeOK
  <2>2. torders[c] \in [n : 0..placed, id : EngineId(IDS) \cup {InvalidId},
                       sysOId : EngineId(SYSTEM_IDS) \cup EngineId(IDS) \cup {InvalidId}]
    BY <1>2, Zenon DEF EngineTypeOK
  <2>3. torders[c].n = s.n
    BY <1>2, <1>c, Zenon DEF Holds
  <2>. QED
    BY <2>1, <2>2, <2>3
<1>6. \A n, x : Holds(n, x) => Holds(n, x)'
  <2> SUFFICES ASSUME NEW n, NEW x, Holds(n, x) PROVE Holds(n, x)'
    BY Zenon
  <2>1. x.index \in 1..IDS
    BY Zenon DEF Holds, EngineId
  <2>2. IsValid(torders'[x.index].sysOId)
    BY <1>4, <1>5, <2>1, Zenon DEF Holds
  <2>3. torders'[x.index].n = n /\ torders'[x.index].id = x
    BY <1>5, <2>1, Zenon DEF Holds
  <2>. QED
    BY <1>1, <2>2, <2>3, Zenon DEF Holds
<1>7. (\A n : HasAccepted(n)' <=> HasAccepted(n)) /\ Elements(up)' = Elements(up)
  BY <1>1, Zenon DEF HasAccepted, Elements
<1>8. /\ toCancel' \in Seq(1..IDS) /\ Len(toCancel') <= CANCELS
      /\ Elements(toCancel)' \subseteq Elements(toCancel) \cup {c}
      /\ c \in Elements(toCancel)' => s.state = "Accepted"
      /\ \A k, l \in 1..Len(toCancel') : toCancel'[k] = toCancel'[l] => k = l
  <2>1. toCancel \in Seq(1..IDS) /\ Len(toCancel) <= CANCELS
    BY Zenon DEF EngineTypeOK
  <2>2. \A k, l \in 1..Len(toCancel) : toCancel[k] = toCancel[l] => k = l
    BY Zenon DEF InOnePlace
  <2>3. CASE toCancel' = toCancel
    BY <1>2, <2>1, <2>2, <2>3, Zenon DEF Elements
  <2>4. CASE s.state = "Accepted" /\ Len(toCancel) < CANCELS /\ toCancel' = Append(toCancel, c)
    <3>1. /\ toCancel' \in Seq(1..IDS) /\ Len(toCancel') = Len(toCancel) + 1 /\ Len(toCancel) \in Nat
          /\ Elements(Append(toCancel, c)) = Elements(toCancel) \cup {c}
          /\ \A k \in 1..Len(toCancel) : toCancel'[k] = toCancel[k]
          /\ toCancel'[Len(toCancel) + 1] = c
      <4>1. /\ Append(toCancel, c) \in Seq(1..IDS) /\ Len(Append(toCancel, c)) = Len(toCancel) + 1
            /\ Len(toCancel) \in Nat /\ Elements(Append(toCancel, c)) = Elements(toCancel) \cup {c}
            /\ \A k \in 1..Len(toCancel) : Append(toCancel, c)[k] = toCancel[k]
            /\ Append(toCancel, c)[Len(toCancel) + 1] = c
        <5>1. PICK T : T = 1..IDS
          BY Zenon
        <5>2. toCancel \in Seq(T) /\ c \in T
          BY <1>2, <2>1, <5>1, Zenon
        <5>3. /\ Append(toCancel, c) \in Seq(T) /\ Len(Append(toCancel, c)) = Len(toCancel) + 1
              /\ Len(toCancel) \in Nat /\ Elements(Append(toCancel, c)) = Elements(toCancel) \cup {c}
              /\ \A k \in 1..Len(toCancel) : Append(toCancel, c)[k] = toCancel[k]
              /\ Append(toCancel, c)[Len(toCancel) + 1] = c
          BY <5>2, AddLast
        <5>. QED
          BY <5>1, <5>3, Zenon
      <4>2. toCancel' = Append(toCancel, c)
        BY <2>4, Zenon
      <4>. QED
        BY <4>1, <4>2, Zenon
    <3>2. Elements(toCancel)' = Elements(toCancel) \cup {c}
      BY <2>4, <3>1 DEF Elements
    <3>3. \A k \in 1..Len(toCancel) : toCancel[k] # c
      BY <1>2, Zenon DEF Elements
    <3>4. \A k, l \in 1..Len(toCancel') : toCancel'[k] = toCancel'[l] => k = l
      BY <2>2, <3>1, <3>3
    <3>5. Len(toCancel') <= CANCELS
      BY <2>4, <3>1 DEF EngineConstants
    <3>. QED
      BY <2>4, <3>1, <3>2, <3>4, <3>5, Zenon
  <2>. QED
    BY <1>1, <2>3, <2>4, Zenon
<1>9. \A i \in Elements(toCancel)' : i \in 1..IDS /\ torders'[i].n = torders[i].n
  BY <1>2, <1>5, <1>8, AllOpen, Zenon
<1>10. EngineTypeOK'
  <2>1. torders' \in [1..IDS -> [n : 0..placed', id : EngineId(IDS) \cup {InvalidId},
                                sysOId : EngineId(SYSTEM_IDS) \cup EngineId(IDS) \cup {InvalidId}]]
    <3>1. s.sysOId \in EngineId(SYSTEM_IDS) \cup EngineId(IDS) \cup {InvalidId}
      BY <1>4, Zenon
    <3>2. torders \in [1..IDS -> [n : 0..placed', id : EngineId(IDS) \cup {InvalidId},
                                 sysOId : EngineId(SYSTEM_IDS) \cup EngineId(IDS) \cup {InvalidId}]]
      BY <1>1, Zenon DEF EngineTypeOK
    <3>3. torders' = [torders EXCEPT ![c].sysOId = s.sysOId] /\ c \in 1..IDS
      BY <1>1, <1>2, Zenon
    <3>. QED
      BY <3>1, <3>2, <3>3, SetSysOId
  <2>. QED
    BY <1>1, <1>2, <1>8, <2>1, Zenon DEF EngineTypeOK
<1>11. EngineIdsConserved'
  <2>1. \A i \in 1..IDS :
          LET free == {id \in freeIds : id.index = i}
          IN  IF torders'[i].n # 0 /\ torders'[i].n \notin tclosed THEN free = {}
              ELSE \E id \in freeIds : free = {id}
    BY <1>5, Zenon DEF EngineIdsConserved
  <2>2. \A i, j \in 1..IDS : torders'[i].n = torders'[j].n /\ torders'[i].n # 0 => i = j
    BY <1>5 DEF EngineIdsConserved
  <2>. QED
    BY <1>1, <2>1, <2>2 DEF EngineIdsConserved
<1>12. SystemIdsConserved'
  BY <1>1, Zenon DEF SystemIdsConserved
<1>13. InOnePlace'
  <2>1. \A x \in Elements(up)' :
          /\ \A d \in Elements(down)' : x.n # d.n
          /\ \A r \in trecords' : x.n = r.order.n => x.action = "Cancel" /\ Told(r)
    BY <1>1, <1>2, <1>7 DEF InOnePlace
  <2>2. \A x \in Elements(up)' : \A i \in Elements(toCancel)' : x.n # torders'[i].n
    BY <1>2, <1>5, <1>7, <1>8, <1>9 DEF InOnePlace
  <2>3. \A d \in Elements(down)' : \A i \in Elements(toCancel)' : d.n # torders'[i].n
    BY <1>2, <1>5, <1>8, <1>9 DEF InOnePlace
  <2>4. \A d \in Elements(down)' : \A r \in trecords' : d.n = r.order.n => Fits(d, r)
    BY <1>1, <1>2 DEF InOnePlace
  <2>5. \A i \in Elements(toCancel)' : \A r \in trecords' : torders'[i].n = r.order.n => Told(r)
    BY <1>1, <1>2, <1>5, <1>8, <1>9 DEF InOnePlace
  <2>6. OncePerOrder(up)'
    BY <1>1 DEF InOnePlace, OncePerOrder
  <2>7. OncePerOrder(down)'
    BY <1>2, Zenon DEF OncePerOrder
  <2>. QED
    BY <1>8, <2>1, <2>2, <2>3, <2>4, <2>5, <2>6, <2>7, Zenon DEF InOnePlace
<1>14. CancelNamesItsOrder'
  <2>1. \A i \in Elements(toCancel)' : torders'[i].sysOId = systemId[torders[i].n] /\ HasAccepted(torders[i].n)
    BY <1>2, <1>3, <1>5, <1>8, <1>9 DEF CancelNamesItsOrder
  <2>. QED
    BY <1>1, <1>7, <1>9, <2>1, Zenon DEF CancelNamesItsOrder
<1>15. CancelledOnce'
  <2>1. \A i \in Elements(toCancel)' : cancelled[torders[i].n] = 0
    BY <1>2, <1>5, <1>8 DEF CancelledOnce
  <2>. QED
    BY <1>1, <1>2, <1>7, <1>9, <2>1 DEF CancelledOnce
<1>16. StatusFindsItsOrder'
  BY <1>1, <1>2, <1>6, <1>7, Zenon DEF StatusFindsItsOrder
<1>. QED
  BY <1>10, <1>11, <1>12, <1>13, <1>14, <1>15, <1>16, Zenon

\* Full, Cancelled or Rejected: the order is closed and its id goes back.
LEMMA ClosesKeeps ==
  ASSUME EngineInv, EngineConstants, HandleStatus, StatusCloses(Head(down))
  PROVE  EngineInv'
<1> USE DEF EngineInv
<1>s. PICK s : s = Head(down)
  BY Zenon
<1>c. PICK c : c = s.id.index
  BY Zenon
<1>f. PICK f : f = NextGen(s.id)
  BY Zenon
<1>1. /\ down # <<>> /\ down' = Tail(down) /\ stuck' = stuck
      /\ wpc' = wpc /\ trading' = trading /\ tstop' = tstop /\ placed' = placed /\ cancelled' = cancelled
      /\ systemPool' = systemPool /\ trecords' = trecords /\ systemId' = systemId /\ up' = up
      /\ freeIds' = freeIds \cup {f} /\ tclosed' = tclosed \cup {s.n} /\ toCancel' = toCancel
      /\ torders' = [torders EXCEPT ![c].sysOId = s.sysOId]
      /\ s.state \in Final
  BY <1>s, <1>c, <1>f, Zenon DEF HandleStatus, StatusCloses, ReleaseOwn, server
<1>2. /\ s \in DownStatus /\ Holds(s.n, s.id) /\ c \in 1..IDS
      /\ Elements(down)' \subseteq Elements(down) /\ down' \in Seq(DownStatus) /\ OncePerOrder(down')
      /\ \A d \in Elements(down)' : d.n # s.n
      /\ \A x \in Elements(up) : x.n # s.n
      /\ \A i \in Elements(toCancel) : torders[i].n # s.n /\ i # c
      /\ \A r \in trecords : r.order.n = s.n => r.state = "Closing"
  BY <1>1, <1>s, <1>c, NextStatus DEF Fits
<1>3. f \in EngineId(IDS) /\ f.index = c
  <2>1. s.id \in EngineId(IDS)
    BY <1>2, Zenon DEF Holds
  <2>. QED
    BY <1>c, <1>f, <2>1, MaxGenAssumption DEF EngineId, Gen, NextGen, Make
<1>5. /\ \A i \in 1..IDS : torders'[i].n = torders[i].n /\ torders'[i].id = torders[i].id
      /\ \A i \in 1..IDS : i # c => torders'[i] = torders[i]
      /\ torders[c].n = s.n
  <2>1. torders'[c] = [torders[c] EXCEPT !.sysOId = s.sysOId] /\ \A i \in 1..IDS : i # c => torders'[i] = torders[i]
    BY <1>1, <1>2, Zenon DEF EngineTypeOK
  <2>2. torders[c] \in [n : 0..placed, id : EngineId(IDS) \cup {InvalidId},
                       sysOId : EngineId(SYSTEM_IDS) \cup EngineId(IDS) \cup {InvalidId}]
    BY <1>2, Zenon DEF EngineTypeOK
  <2>3. torders[c].n = s.n
    BY <1>2, <1>c, Zenon DEF Holds
  <2>. QED
    BY <2>1, <2>2, <2>3
<1>6. \A n, x : Holds(n, x) /\ n # s.n => Holds(n, x)'
  <2> SUFFICES ASSUME NEW n, NEW x, Holds(n, x), n # s.n PROVE Holds(n, x)'
    BY Zenon
  <2>1. x.index \in 1..IDS
    BY Zenon DEF Holds, EngineId
  <2>2. torders'[x.index] = torders[x.index]
    BY <1>5, <2>1, Zenon DEF Holds
  <2>. QED
    BY <1>1, <2>2, Zenon DEF Holds
<1>7. /\ (\A n : HasAccepted(n)' <=> HasAccepted(n)) /\ Elements(up)' = Elements(up)
      /\ Elements(toCancel)' = Elements(toCancel)
  BY <1>1, Zenon DEF HasAccepted, Elements
<1>9. \A i \in Elements(toCancel) : i \in 1..IDS /\ torders'[i] = torders[i]
  BY <1>2, <1>5, AllOpen, Zenon
<1>10. EngineTypeOK'
  <2>1. torders' \in [1..IDS -> [n : 0..placed', id : EngineId(IDS) \cup {InvalidId},
                                sysOId : EngineId(SYSTEM_IDS) \cup EngineId(IDS) \cup {InvalidId}]]
    <3>1. s.sysOId \in EngineId(SYSTEM_IDS) \cup EngineId(IDS) \cup {InvalidId}
      BY <1>2, Zenon DEF DownStatus
    <3>2. torders \in [1..IDS -> [n : 0..placed', id : EngineId(IDS) \cup {InvalidId},
                                 sysOId : EngineId(SYSTEM_IDS) \cup EngineId(IDS) \cup {InvalidId}]]
      BY <1>1, Zenon DEF EngineTypeOK
    <3>3. torders' = [torders EXCEPT ![c].sysOId = s.sysOId] /\ c \in 1..IDS
      BY <1>1, <1>2, Zenon
    <3>. QED
      BY <3>1, <3>2, <3>3, SetSysOId
  <2>2. tclosed' \subseteq 1..placed' /\ freeIds' \subseteq EngineId(IDS)
    BY <1>1, <1>2, <1>3, Zenon DEF EngineTypeOK, Holds
  <2>. QED
    BY <1>1, <1>2, <2>1, <2>2, Zenon DEF EngineTypeOK
<1>11. EngineIdsConserved'
  <2>1. ASSUME NEW i \in 1..IDS
        PROVE  LET free == {x \in freeIds' : x.index = i}
               IN  IF torders'[i].n # 0 /\ torders'[i].n \notin tclosed' THEN free = {}
                   ELSE \E x \in freeIds' : free = {x}
    <3>1. CASE i = c
      <4>1. torders[c].n # 0 /\ torders[c].n \notin tclosed
        BY <1>2, <1>5, AllOpen DEF Holds
      <4>2. {x \in freeIds : x.index = c} = {}
        BY <1>2, <4>1, Zenon DEF EngineIdsConserved
      <4>3. {x \in freeIds' : x.index = c} = {f} /\ f \in freeIds'
        BY <1>1, <1>3, <4>2
      <4>4. torders'[c].n \in tclosed'
        BY <1>1, <1>2, <1>5
      <4>. QED
        BY <3>1, <4>3, <4>4, Zenon
    <3>2. CASE i # c
      <4>1. torders'[i].n = torders[i].n /\ {x \in freeIds' : x.index = i} = {x \in freeIds : x.index = i}
        BY <1>1, <1>3, <1>5, <3>2, Zenon
      <4>2. torders[i].n # 0 => (torders[i].n \in tclosed' <=> torders[i].n \in tclosed)
        BY <1>1, <1>2, <1>5, <3>2 DEF EngineIdsConserved
      <4>3. \A x \in freeIds : x \in freeIds'
        BY <1>1, Zenon
      <4>. QED
        BY <4>1, <4>2, <4>3, Zenon DEF EngineIdsConserved
    <3>. QED
      BY <3>1, <3>2, Zenon
  <2>2. \A i, j \in 1..IDS : torders'[i].n = torders'[j].n /\ torders'[i].n # 0 => i = j
    BY <1>5 DEF EngineIdsConserved
  <2>. QED
    BY <2>1, <2>2, Zenon DEF EngineIdsConserved
<1>12. SystemIdsConserved'
  BY <1>1, Zenon DEF SystemIdsConserved
<1>13. InOnePlace'
  BY <1>1, <1>2, <1>7, <1>9 DEF InOnePlace, OncePerOrder
<1>14. CancelNamesItsOrder'
  BY <1>1, <1>7, <1>9, Zenon DEF CancelNamesItsOrder
<1>15. CancelledOnce'
  BY <1>1, <1>2, <1>7, <1>9 DEF CancelledOnce
<1>16. StatusFindsItsOrder'
  BY <1>1, <1>2, <1>6, <1>7, Zenon DEF StatusFindsItsOrder
<1>. QED
  BY <1>10, <1>11, <1>12, <1>13, <1>14, <1>15, <1>16, Zenon
\* The message the gateway receives is the only one about its order.
LEMMA NextMessage ==
  ASSUME EngineInv, EngineConstants, up # <<>>, up' = Tail(up), NEW m, m = Head(up)
  PROVE  /\ m \in Elements(up) /\ m \in UpMessage /\ m.n \in 1..MAX_PLACED
         /\ Elements(up)' \subseteq Elements(up) /\ up' \in Seq(UpMessage) /\ OncePerOrder(up')
         /\ \A x \in Elements(up)' : x.n # m.n
         /\ \A d \in Elements(down) : d.n # m.n
         /\ \A i \in Elements(toCancel) : torders[i].n # m.n
         /\ \A r \in trecords : r.order.n = m.n => m.action = "Cancel" /\ Told(r)
<1> USE DEF EngineInv
<1>1. up \in Seq(UpMessage) /\ OncePerOrder(up) /\ Elements(up)' = Elements(Tail(up))
  <2>1. up \in Seq(UpMessage) /\ OncePerOrder(up)
    BY Zenon DEF EngineTypeOK, InOnePlace
  <2>2. Elements(up)' = Elements(up')
    BY Zenon DEF Elements
  <2> QED
    BY <2>1, <2>2, Zenon
<1>2. /\ m \in Elements(up) /\ m \in UpMessage /\ Elements(up)' \subseteq Elements(up) /\ up' \in Seq(UpMessage)
      /\ OncePerOrder(up') /\ \A x \in Elements(up)' : x.n # m.n
  BY <1>1, TakeHead, TakeOnce, Zenon
<1>3. \A d \in Elements(down) : d.n # m.n
  BY <1>2, Zenon DEF InOnePlace
<1>4. \A i \in Elements(toCancel) : torders[i].n # m.n
  BY <1>2, Zenon DEF InOnePlace
<1>5. \A r \in trecords : m.n = r.order.n => m.action = "Cancel" /\ Told(r)
  BY <1>2, Zenon DEF InOnePlace
<1>6. m.n \in 1..MAX_PLACED
  BY <1>2, Zenon DEF UpMessage
<1>. QED
  BY <1>2, <1>3, <1>4, <1>5, <1>6, Zenon

\* A new order reaches the gateway, which gives it a system id and a record.
LEMMA AcceptKeeps ==
  ASSUME EngineInv, EngineConstants, GatewayAccepts
  PROVE  EngineInv'
<1> USE DEF EngineInv
<1>m. PICK m : m = Head(up)
  BY Zenon
<1>i. PICK id \in systemPool :
        /\ systemPool' = systemPool \ {id}
        /\ trecords' = trecords \cup {[order |-> m, id |-> id, state |-> "New"]}
        /\ systemId' = [systemId EXCEPT ![m.n] = id]
  BY <1>m, Zenon DEF GatewayAccepts
<1>q. PICK q : q = [order |-> m, id |-> id, state |-> "New"]
  BY Zenon
<1>1. /\ up # <<>> /\ m.action = "New" /\ up' = Tail(up) /\ down' = down
      /\ wpc' = wpc /\ trading' = trading /\ tstop' = tstop /\ freeIds' = freeIds /\ torders' = torders /\ stuck' = stuck
      /\ toCancel' = toCancel /\ placed' = placed /\ cancelled' = cancelled /\ tclosed' = tclosed
      /\ trecords' = trecords \cup {q} /\ q.order = m /\ q.id = id /\ q.state = "New"
  BY <1>m, <1>i, <1>q, Zenon DEF GatewayAccepts, Receive, client
<1>2. /\ m \in Elements(up) /\ m \in UpMessage /\ m.n \in 1..MAX_PLACED
      /\ Elements(up)' \subseteq Elements(up) /\ up' \in Seq(UpMessage)
      /\ OncePerOrder(up') /\ \A x \in Elements(up)' : x.n # m.n
      /\ \A d \in Elements(down) : d.n # m.n
      /\ \A i \in Elements(toCancel) : torders[i].n # m.n
      /\ \A r \in trecords : r.order.n # m.n
  BY <1>1, <1>m, NextMessage, Zenon
<1>3. Holds(m.n, m.id) /\ cancelled[m.n] = 0
  BY <1>1, <1>2, Zenon DEF StatusFindsItsOrder, CancelledOnce
<1>4. id \in EngineId(SYSTEM_IDS) /\ \A r \in trecords : r.id.index # id.index
  BY Zenon DEF EngineTypeOK, SystemIdsConserved
<1>5. systemId'[m.n] = id /\ \A n \in 1..MAX_PLACED : n # m.n => systemId'[n] = systemId[n]
  BY <1>2, <1>i, Zenon DEF EngineTypeOK
<1>6. /\ (\A n, x : Holds(n, x)' <=> Holds(n, x)) /\ (\A n : HasAccepted(n) => HasAccepted(n)')
      /\ Elements(toCancel)' = Elements(toCancel) /\ Elements(down)' = Elements(down)
  BY <1>1, Zenon DEF Holds, HasAccepted, Elements
<1>7. EngineTypeOK'
  <2>1. q \in [order : UpMessage, id : EngineId(SYSTEM_IDS), state : RecordState]
    BY <1>2, <1>4, <1>q, Zenon DEF RecordState
  <2>2. systemId' \in [1..MAX_PLACED -> EngineId(SYSTEM_IDS) \cup {InvalidId}]
    BY <1>2, <1>4, <1>i, Zenon DEF EngineTypeOK
  <2>. QED
    BY <1>1, <1>2, <1>i, <2>1, <2>2, Zenon DEF EngineTypeOK
<1>8. EngineIdsConserved'
  BY <1>1, Zenon DEF EngineIdsConserved
<1>9. SystemIdsConserved'
  <2>1. \A r \in trecords : r.order.n \in 1..MAX_PLACED
    BY AllNumbered, Zenon
  <2>2. \A r, x \in trecords' : r.order.n = x.order.n \/ r.id.index = x.id.index => r = x
    BY <1>1, <1>2, <1>4 DEF SystemIdsConserved
  <2>3. \A r \in trecords' : r.id = systemId'[r.order.n]
    BY <1>1, <1>2, <1>5, <2>1 DEF SystemIdsConserved
  <2>4. \A x, y \in systemPool : x.index = y.index => x = y
    BY Zenon DEF SystemIdsConserved
  <2>5. \A r \in trecords' : \A x \in systemPool' : x.index # r.id.index
    BY <1>1, <1>i, <2>4 DEF SystemIdsConserved
  <2>. QED
    BY <1>i, <2>2, <2>3, <2>4, <2>5 DEF SystemIdsConserved
<1>10. InOnePlace'
  <2>1. \A x \in Elements(up)' :
          /\ \A d \in Elements(down)' : x.n # d.n
          /\ \A i \in Elements(toCancel)' : x.n # torders'[i].n
          /\ \A r \in trecords' : x.n = r.order.n => x.action = "Cancel" /\ Told(r)
    BY <1>1, <1>2, <1>6 DEF InOnePlace
  <2>2. \A d \in Elements(down)' :
          /\ \A i \in Elements(toCancel)' : d.n # torders'[i].n
          /\ \A r \in trecords' : d.n = r.order.n => Fits(d, r)
    BY <1>1, <1>2, <1>6 DEF InOnePlace
  <2>3. /\ OncePerOrder(down')
        /\ \A k, l \in 1..Len(toCancel') : toCancel'[k] = toCancel'[l] => k = l
        /\ \A i \in Elements(toCancel)' : \A r \in trecords' : torders'[i].n = r.order.n => Told(r)
    BY <1>1, <1>2, <1>6 DEF InOnePlace
  <2>. QED
    BY <1>2, <2>1, <2>2, <2>3, Zenon DEF InOnePlace, OncePerOrder
<1>11. CancelNamesItsOrder'
  <2>1. \A x \in Elements(up)' : systemId'[x.n] = systemId[x.n]
    BY <1>2, <1>5, AllNumbered, Zenon
  <2>2. \A i \in Elements(toCancel)' : systemId'[torders'[i].n] = systemId[torders[i].n]
    BY <1>1, <1>2, <1>5, <1>6, AllNumbered, Zenon
  <2>. QED
    BY <1>1, <1>2, <1>6, <2>1, <2>2 DEF CancelNamesItsOrder
<1>12. CancelledOnce'
  BY <1>1, <1>2, <1>3, <1>6, Zenon DEF CancelledOnce
<1>13. StatusFindsItsOrder'
  <2>1. \A d \in Elements(down)' : systemId'[d.n] = systemId[d.n]
    BY <1>2, <1>5, <1>6, AllNumbered, Zenon
  <2>2. \A r \in trecords' : r.order.n \in 1..placed /\ (r.state # "Closing" => Holds(r.order.n, r.order.id))
    <3>1. m.n \in 1..placed
      BY <1>3, Zenon DEF Holds
    <3>. QED
      BY <1>1, <1>3, <3>1, Zenon DEF StatusFindsItsOrder
  <2>. QED
    BY <1>1, <1>2, <1>6, <2>1, <2>2, Zenon DEF StatusFindsItsOrder
<1>. QED
  BY <1>7, <1>8, <1>9, <1>10, <1>11, <1>12, <1>13, Zenon

\* The book answers an order or its cancel: the client is told, the record waits.
LEMMA AnswerKeeps ==
  ASSUME EngineInv, EngineConstants, BookAnswers
  PROVE  EngineInv'
<1> USE DEF EngineInv
<1>t. PICK r \in trecords, state \in {"Accepted", "Partial"} \cup Final :
         /\ \/ r.state = "New" /\ state \in {"Accepted", "Partial", "Full"}
            \/ r.state = "Cancelling" /\ state \in {"Cancelled", "Rejected"}
         /\ down' = Append(down, Status(r.order, r.id, state))
         /\ trecords' = (trecords \ {r}) \cup
                          {[r EXCEPT !.state = IF state \in Final THEN "Closing" ELSE "Accepting"]}
  BY Zenon DEF BookAnswers
<1>s. PICK s : s = Status(r.order, r.id, state)
  BY Zenon
<1>q. PICK q : q = [r EXCEPT !.state = IF state \in Final THEN "Closing" ELSE "Accepting"]
  BY Zenon
<1>1. /\ up' = up /\ wpc' = wpc /\ trading' = trading /\ tstop' = tstop /\ freeIds' = freeIds /\ torders' = torders
      /\ stuck' = stuck /\ toCancel' = toCancel /\ placed' = placed /\ cancelled' = cancelled /\ tclosed' = tclosed
      /\ systemId' = systemId /\ systemPool' = systemPool
  BY Zenon DEF BookAnswers, client
<1>2. /\ r.order \in UpMessage /\ r.id \in EngineId(SYSTEM_IDS) /\ r \in [order : UpMessage, id : EngineId(SYSTEM_IDS), state : RecordState]
      /\ Holds(r.order.n, r.order.id) /\ r.id = systemId[r.order.n]
      /\ state = "Accepted" => cancelled[r.order.n] = 0
  BY <1>t, Zenon DEF EngineTypeOK, StatusFindsItsOrder, SystemIdsConserved, CancelledOnce
<1>3. /\ q \in [order : UpMessage, id : EngineId(SYSTEM_IDS), state : RecordState]
      /\ q.order = r.order /\ q.id = r.id
      /\ q.state = IF state \in Final THEN "Closing" ELSE "Accepting"
  BY <1>2, <1>q DEF RecordState
<1>4. /\ s \in DownStatus /\ s.n = r.order.n /\ s.id = r.order.id /\ s.sysOId = r.id /\ s.state = state
  <2>1. s.n = r.order.n /\ s.id = r.order.id /\ s.sysOId = r.id /\ s.state = state
    BY <1>s, Zenon DEF Status
  <2>2. r.order.n \in 1..MAX_PLACED /\ r.order.id \in EngineId(IDS) /\ state \in {"Accepted", "Partial"} \cup Final
    BY <1>2, Zenon DEF UpMessage, Holds, Final
  <2>. QED
    BY <1>2, <1>s, <2>1, <2>2, Zenon DEF DownStatus, Status
<1>5. down' \in Seq(DownStatus) /\ Elements(down)' = Elements(down) \cup {s} /\ down' = Append(down, s)
  <2>1. down' = Append(down, s) /\ Elements(down)' = Elements(Append(down, s))
    BY <1>s, <1>t, Zenon DEF Elements
  <2>. QED
    BY <1>4, <2>1, AddLast DEF EngineTypeOK
<1>6. /\ \A x \in Elements(up) : x.n # s.n
      /\ \A d \in Elements(down) : d.n # s.n
      /\ \A i \in Elements(toCancel) : torders[i].n # s.n
      /\ \A x \in trecords : x.order.n = s.n => x = r
  <2>t. ~Told(r) /\ \A d : ~Fits(d, r)
    BY <1>t, Zenon DEF Told, Fits
  <2>1. \A x \in Elements(up) : x.n # r.order.n
    BY <2>t, Zenon DEF InOnePlace
  <2>2. \A d \in Elements(down) : d.n # r.order.n
    BY <2>t, Zenon DEF InOnePlace
  <2>3. \A i \in Elements(toCancel) : torders[i].n # r.order.n
    BY <2>t, Zenon DEF InOnePlace
  <2>4. \A x \in trecords : x.order.n = r.order.n => x = r
    BY Zenon DEF SystemIdsConserved
  <2>. QED
    BY <1>4, <2>1, <2>2, <2>3, <2>4, Zenon
<1>7. /\ (\A n, x : Holds(n, x)' <=> Holds(n, x))
      /\ Elements(toCancel)' = Elements(toCancel) /\ Elements(up)' = Elements(up)
  BY <1>1, Zenon DEF Holds, Elements
<1>8. /\ \A x \in trecords' : (x \in trecords /\ x # r) \/ x = q
      /\ \A x \in trecords : x # r => x \in trecords'
      /\ q \in trecords'
  BY <1>q, <1>t, Zenon
<1>9. \A n : HasAccepted(n) => HasAccepted(n)'
  BY <1>8, <1>t, Zenon DEF HasAccepted, Told
<1>10. s.state \notin Final => HasAccepted(s.n)'
  BY <1>3, <1>4, <1>8, Zenon DEF HasAccepted, Told
<1>11. Fits(s, q)
  BY <1>3, <1>4, Zenon DEF Fits, Told
<1>12. EngineTypeOK'
  <2>1. trecords' \subseteq [order : UpMessage, id : EngineId(SYSTEM_IDS), state : RecordState]
    BY <1>3, <1>8, Zenon DEF EngineTypeOK
  <2>. QED
    BY <1>1, <1>5, <2>1, Zenon DEF EngineTypeOK
<1>13. EngineIdsConserved'
  BY <1>1, Zenon DEF EngineIdsConserved
<1>14. SystemIdsConserved'
  <2>1. \A x, y \in trecords' : x.order.n = y.order.n \/ x.id.index = y.id.index => x = y
    BY <1>3, <1>8 DEF SystemIdsConserved
  <2>2. \A x \in trecords' : x.id = systemId'[x.order.n]
    BY <1>1, <1>2, <1>3, <1>8, Zenon DEF SystemIdsConserved
  <2>3. \A x \in trecords' : \A y \in systemPool : y.index # x.id.index
    BY <1>3, <1>8, Zenon DEF SystemIdsConserved
  <2>. QED
    BY <1>1, <2>1, <2>2, <2>3, Zenon DEF SystemIdsConserved
<1>15. InOnePlace'
  <2>1. OncePerOrder(down')
    BY <1>4, <1>5, <1>6, AddOnce, Zenon DEF EngineTypeOK, InOnePlace
  <2>2. \A x \in Elements(up)' :
          /\ \A d \in Elements(down)' : x.n # d.n
          /\ \A i \in Elements(toCancel)' : x.n # torders'[i].n
          /\ \A y \in trecords' : x.n = y.order.n => x.action = "Cancel" /\ Told(y)
    <3> SUFFICES ASSUME NEW x \in Elements(up)
                 PROVE  /\ \A d \in Elements(down)' : x.n # d.n
                        /\ \A i \in Elements(toCancel)' : x.n # torders'[i].n
                        /\ \A y \in trecords' : x.n = y.order.n => x.action = "Cancel" /\ Told(y)
      BY <1>7, Zenon
    <3>1. \A d \in Elements(down)' : x.n # d.n
      BY <1>5, <1>6, Zenon DEF InOnePlace
    <3>2. \A i \in Elements(toCancel)' : x.n # torders'[i].n
      BY <1>1, <1>7, Zenon DEF InOnePlace
    <3>3. x.n # s.n /\ s.n = r.order.n
      BY <1>4, <1>6, Zenon
    <3>4. \A y \in trecords : x.n = y.order.n => x.action = "Cancel" /\ Told(y)
      BY Zenon DEF InOnePlace
    <3>5. \A y \in trecords' : x.n = y.order.n => x.action = "Cancel" /\ Told(y)
      BY <1>3, <1>8, <3>3, <3>4
    <3>. QED
      BY <3>1, <3>2, <3>5, Zenon
  <2>3. \A d \in Elements(down)' : \A i \in Elements(toCancel)' : d.n # torders'[i].n
    BY <1>1, <1>5, <1>6, <1>7 DEF InOnePlace
  <2>4. \A d \in Elements(down)' : \A y \in trecords' : d.n = y.order.n => Fits(d, y)
    <3>1. \A d \in Elements(down) : \A y \in trecords' : d.n = y.order.n => Fits(d, y)
      BY <1>3, <1>4, <1>6, <1>8 DEF InOnePlace
    <3>2. \A y \in trecords' : s.n = y.order.n => Fits(s, y)
      BY <1>6, <1>8, <1>11, Zenon
    <3>. QED
      BY <1>5, <3>1, <3>2, Zenon
  <2>5. \A i \in Elements(toCancel)' : \A y \in trecords' : torders'[i].n = y.order.n => Told(y)
    <3>1. \A i \in Elements(toCancel) : \A y \in trecords : torders[i].n = y.order.n => Told(y)
      BY Zenon DEF InOnePlace
    <3>2. \A y \in trecords' : y \in trecords \/ (y.order.n = s.n)
      BY <1>3, <1>4, <1>8, Zenon
    <3>. QED
      BY <1>1, <1>6, <1>7, <3>1, <3>2, Zenon
  <2>6. OncePerOrder(up)' /\ \A k, l \in 1..Len(toCancel') : toCancel'[k] = toCancel'[l] => k = l
    BY <1>1 DEF InOnePlace, OncePerOrder
  <2>7. OncePerOrder(down)'
    BY <2>1, Zenon DEF OncePerOrder
  <2>. QED
    BY <2>2, <2>3, <2>4, <2>5, <2>6, <2>7, Zenon DEF InOnePlace
<1>16. CancelNamesItsOrder'
  BY <1>1, <1>7, <1>9, Zenon DEF CancelNamesItsOrder
<1>17. CancelledOnce'
  <2>1. \A x \in trecords' : x.state = "New" => x \in trecords
    BY <1>3, <1>8, Zenon
  <2>2. \A d \in Elements(down)' : d.state = "Accepted" => cancelled[d.n] = 0
    BY <1>2, <1>4, <1>5, Zenon DEF CancelledOnce
  <2>. QED
    BY <1>1, <1>7, <2>1, <2>2, Zenon DEF CancelledOnce
<1>18. StatusFindsItsOrder'
  <2>1. \A x \in trecords' : x.order.n \in 1..placed /\ (x.state # "Closing" => Holds(x.order.n, x.order.id))
    BY <1>2, <1>3, <1>8, Zenon DEF StatusFindsItsOrder, Holds
  <2>2. \A d \in Elements(down)' :
          /\ Holds(d.n, d.id)
          /\ d.state \notin Final => d.sysOId = systemId[d.n] /\ HasAccepted(d.n)'
    BY <1>2, <1>4, <1>5, <1>9, <1>10, Zenon DEF StatusFindsItsOrder
  <2>. QED
    BY <1>1, <1>7, <2>1, <2>2, Zenon DEF StatusFindsItsOrder
<1>. QED
  BY <1>12, <1>13, <1>14, <1>15, <1>16, <1>17, <1>18, Zenon

\* The record is updated after the answer was sent, or closed and its id released.
LEMMA UpdateKeeps ==
  ASSUME EngineInv, EngineConstants, GatewayUpdates
  PROVE  EngineInv'
<1> USE DEF EngineInv
<1>t. PICK r \in trecords :
        \/ /\ r.state = "Accepting"
           /\ trecords' = (trecords \ {r}) \cup {[r EXCEPT !.state = "Accepted"]}
           /\ UNCHANGED systemPool
        \/ /\ r.state = "Closing"
           /\ trecords' = trecords \ {r}
           /\ systemPool' = systemPool \cup {NextGen(r.id)}
  BY Zenon DEF GatewayUpdates
<1>q. PICK q : q = [r EXCEPT !.state = "Accepted"]
  BY Zenon
<1>1. /\ up' = up /\ wpc' = wpc /\ trading' = trading /\ tstop' = tstop /\ freeIds' = freeIds /\ torders' = torders
      /\ stuck' = stuck /\ toCancel' = toCancel /\ placed' = placed /\ cancelled' = cancelled /\ tclosed' = tclosed
      /\ systemId' = systemId /\ down' = down
  BY Zenon DEF GatewayUpdates, client
<1>2. r \in [order : UpMessage, id : EngineId(SYSTEM_IDS), state : RecordState]
  BY Zenon DEF EngineTypeOK
<1>3. /\ q \in [order : UpMessage, id : EngineId(SYSTEM_IDS), state : RecordState]
      /\ q.order = r.order /\ q.id = r.id /\ q.state = "Accepted"
  BY <1>2, <1>q DEF RecordState
<1>4. /\ \A x \in trecords' : (x \in trecords /\ x # r) \/ (x = q /\ r.state = "Accepting")
      /\ \A x \in trecords : x # r => x \in trecords'
      /\ r.state = "Accepting" => q \in trecords'
  BY <1>q, <1>t, Zenon
<1>5. ASSUME NEW x \in trecords'
      PROVE  \E y \in trecords :
               /\ y.order = x.order /\ y.id = x.id
               /\ Told(y) => Told(x)
               /\ \A d : Fits(d, y) => Fits(d, x)
               /\ x.state = "New" => y.state = "New"
               /\ x.state # "Closing" => y.state # "Closing"
  <2>1. CASE x \in trecords
    BY <2>1, Zenon
  <2>2. CASE x = q /\ r.state = "Accepting"
    <3>1. Told(q) /\ \A d : Fits(d, r) => Fits(d, q)
      BY <1>3, <2>2, Zenon DEF Told, Fits
    <3>. QED
      BY <1>3, <2>2, <3>1, Zenon
  <2>. QED
    BY <1>4, <2>1, <2>2, Zenon
<1>6. /\ (\A n, x : Holds(n, x)' <=> Holds(n, x)) /\ (\A n : HasAccepted(n) => HasAccepted(n)')
      /\ Elements(toCancel)' = Elements(toCancel) /\ Elements(up)' = Elements(up) /\ Elements(down)' = Elements(down)
  <2>1. \A n : HasAccepted(n) => HasAccepted(n)'
    BY <1>3, <1>4, <1>t, Zenon DEF HasAccepted, Told
  <2>. QED
    BY <1>1, <2>1, Zenon DEF Holds, Elements
<1>7. \A x \in systemPool' : x \in systemPool \/ (r.state = "Closing" /\ x = NextGen(r.id) /\ x.index = r.id.index)
  BY <1>t DEF NextGen, Make
<1>8. EngineTypeOK'
  <2>1. NextGen(r.id) \in EngineId(SYSTEM_IDS)
    BY <1>2, MaxGenAssumption DEF EngineId, Gen, NextGen, Make
  <2>2. systemPool' \subseteq EngineId(SYSTEM_IDS)
    BY <1>7, <2>1, Zenon DEF EngineTypeOK
  <2>3. trecords' \subseteq [order : UpMessage, id : EngineId(SYSTEM_IDS), state : RecordState]
    BY <1>3, <1>4, Zenon DEF EngineTypeOK
  <2>. QED
    BY <1>1, <2>2, <2>3, Zenon DEF EngineTypeOK
<1>9. EngineIdsConserved'
  BY <1>1, Zenon DEF EngineIdsConserved
<1>10. SystemIdsConserved'
  <2>1. \A x, y \in trecords' : x.order.n = y.order.n \/ x.id.index = y.id.index => x = y
    BY <1>3, <1>4 DEF SystemIdsConserved
  <2>2. \A x \in trecords' : x.id = systemId'[x.order.n]
    BY <1>1, <1>5 DEF SystemIdsConserved
  <2>3. \A x \in trecords' : \A y \in systemPool' : y.index # x.id.index
    BY <1>3, <1>4, <1>7 DEF SystemIdsConserved
  <2>4. \A x, y \in systemPool' : x.index = y.index => x = y
    BY <1>7 DEF SystemIdsConserved
  <2>. QED
    BY <2>1, <2>2, <2>3, <2>4, Zenon DEF SystemIdsConserved
<1>11. InOnePlace'
  <2>1. \A m \in Elements(up)' : \A x \in trecords' : m.n = x.order.n => m.action = "Cancel" /\ Told(x)
    BY <1>5, <1>6 DEF InOnePlace
  <2>2. \A d \in Elements(down)' : \A x \in trecords' : d.n = x.order.n => Fits(d, x)
    BY <1>5, <1>6 DEF InOnePlace
  <2>3. \A i \in Elements(toCancel)' : \A x \in trecords' : torders'[i].n = x.order.n => Told(x)
    BY <1>1, <1>5, <1>6 DEF InOnePlace
  <2>. QED
    BY <1>1, <1>6, <2>1, <2>2, <2>3, Zenon DEF InOnePlace, OncePerOrder
<1>12. CancelNamesItsOrder'
  BY <1>1, <1>6, Zenon DEF CancelNamesItsOrder
<1>13. CancelledOnce'
  <2>1. \A x \in trecords' : x.state = "New" => cancelled[x.order.n] = 0
    BY <1>5, Zenon DEF CancelledOnce
  <2>. QED
    BY <1>1, <1>6, <2>1, Zenon DEF CancelledOnce
<1>14. StatusFindsItsOrder'
  <2>1. \A x \in trecords' : x.order.n \in 1..placed /\ (x.state # "Closing" => Holds(x.order.n, x.order.id))
    BY <1>5, Zenon DEF StatusFindsItsOrder
  <2>. QED
    BY <1>1, <1>6, <2>1, Zenon DEF StatusFindsItsOrder
<1>. QED
  BY <1>8, <1>9, <1>10, <1>11, <1>12, <1>13, <1>14, Zenon

\* A cancel reaches the gateway: the accepted record it names waits for the
\* book's answer; naming none, it is dropped.
LEMMA GatewayCancelKeeps ==
  ASSUME EngineInv, EngineConstants, GatewayCancels
  PROVE  EngineInv'
<1> USE DEF EngineInv
<1>m. PICK m : m = Head(up)
  BY Zenon
<1>n. PICK named : named = {r \in trecords : r.id = m.id /\ r.state = "Accepted"}
  BY Zenon
<1>1. /\ up # <<>> /\ m.action = "Cancel" /\ up' = Tail(up) /\ down' = down
      /\ wpc' = wpc /\ trading' = trading /\ tstop' = tstop /\ freeIds' = freeIds /\ torders' = torders
      /\ stuck' = stuck /\ toCancel' = toCancel /\ placed' = placed /\ cancelled' = cancelled /\ tclosed' = tclosed
      /\ systemId' = systemId /\ systemPool' = systemPool
      /\ trecords' = (trecords \ named) \cup {[r EXCEPT !.state = "Cancelling"] : r \in named}
  BY <1>m, <1>n, Zenon DEF GatewayCancels, Receive, client
<1>2. /\ m \in Elements(up) /\ Elements(up)' \subseteq Elements(up) /\ up' \in Seq(UpMessage)
      /\ OncePerOrder(up') /\ \A x \in Elements(up)' : x.n # m.n
      /\ \A d \in Elements(down) : d.n # m.n
      /\ \A i \in Elements(toCancel) : torders[i].n # m.n
  BY <1>1, <1>m, NextMessage, Zenon
<1>3. PICK a \in trecords : a.order.n = m.n /\ a.id = m.id
  <2>1. m.id = systemId[m.n] /\ HasAccepted(m.n)
    BY <1>1, <1>2, Zenon DEF CancelNamesItsOrder
  <2>. QED
    BY <2>1, Zenon DEF HasAccepted, SystemIdsConserved
<1>4. \A r \in named : r = a /\ a.state = "Accepted"
  <2>1. \A r \in trecords : r.id = a.id => r = a
    BY Zenon DEF SystemIdsConserved
  <2>. QED
    BY <1>3, <1>n, <2>1, Zenon
<1>q. PICK q : q = [a EXCEPT !.state = "Cancelling"]
  BY Zenon
<1>5. /\ q \in [order : UpMessage, id : EngineId(SYSTEM_IDS), state : RecordState]
      /\ q.order = a.order /\ q.id = a.id /\ q.state = "Cancelling"
  <2>1. a \in [order : UpMessage, id : EngineId(SYSTEM_IDS), state : RecordState]
    BY Zenon DEF EngineTypeOK
  <2>. QED
    BY <1>q, <2>1 DEF RecordState
<1>6. /\ \A x \in trecords' : x \in trecords \/ (x = q /\ a.state = "Accepted")
      /\ \A x \in trecords : x # a => x \in trecords'
      /\ a \in trecords' /\ q \in trecords' => a = q
  <2>1. \A x \in named : [x EXCEPT !.state = "Cancelling"] = q
    BY <1>4, <1>q, Zenon
  <2>2. CASE named = {}
    <3>1. trecords' = trecords
      BY <1>1, <2>2
    <3>2. \A x \in trecords : x.order.n = a.order.n => x = a
      BY Zenon DEF SystemIdsConserved
    <3>. QED
      BY <1>5, <3>1, <3>2, Zenon
  <2>3. CASE named # {}
    <3>1. named = {a} /\ a.state = "Accepted"
      BY <1>4, <2>3, Zenon
    <3>2. trecords' = (trecords \ {a}) \cup {q}
      BY <1>1, <1>q, <3>1, Zenon
    <3>. QED
      BY <3>1, <3>2, Zenon
  <2>. QED
    BY <2>2, <2>3, Zenon
<1>7. \A x \in trecords' : x \in trecords \/ x.order.n = m.n
  BY <1>3, <1>5, <1>6, Zenon
<1>8. \A n : n # m.n /\ HasAccepted(n) => HasAccepted(n)'
  BY <1>3, <1>6, Zenon DEF HasAccepted
<1>9. /\ (\A n, x : Holds(n, x)' <=> Holds(n, x))
      /\ Elements(toCancel)' = Elements(toCancel) /\ Elements(down)' = Elements(down)
  BY <1>1, Zenon DEF Holds, Elements
<1>10. EngineTypeOK'
  <2>1. trecords' \subseteq [order : UpMessage, id : EngineId(SYSTEM_IDS), state : RecordState]
    BY <1>5, <1>6, Zenon DEF EngineTypeOK
  <2>. QED
    BY <1>1, <1>2, <2>1, Zenon DEF EngineTypeOK
<1>11. EngineIdsConserved'
  BY <1>1, Zenon DEF EngineIdsConserved
<1>12. SystemIdsConserved'
  <2>1. \A x, y \in trecords' : x.order.n = y.order.n \/ x.id.index = y.id.index => x = y
    BY <1>5, <1>6 DEF SystemIdsConserved
  <2>2. \A x \in trecords' : x.id = systemId[x.order.n] /\ \A y \in systemPool : y.index # x.id.index
    BY <1>5, <1>6, Zenon DEF SystemIdsConserved
  <2>. QED
    BY <1>1, <2>1, <2>2, Zenon DEF SystemIdsConserved
<1>13. InOnePlace'
  <2>1. \A x \in Elements(up)' :
          /\ \A d \in Elements(down)' : x.n # d.n
          /\ \A i \in Elements(toCancel)' : x.n # torders'[i].n
          /\ \A y \in trecords' : x.n = y.order.n => x.action = "Cancel" /\ Told(y)
    BY <1>1, <1>2, <1>7, <1>9 DEF InOnePlace
  <2>2. \A d \in Elements(down)' :
          /\ \A i \in Elements(toCancel)' : d.n # torders'[i].n
          /\ \A y \in trecords' : d.n = y.order.n => Fits(d, y)
    BY <1>1, <1>2, <1>7, <1>9 DEF InOnePlace
  <2>3. /\ OncePerOrder(down')
        /\ \A k, l \in 1..Len(toCancel') : toCancel'[k] = toCancel'[l] => k = l
        /\ \A i \in Elements(toCancel)' : \A y \in trecords' : torders'[i].n = y.order.n => Told(y)
    BY <1>1, <1>2, <1>7, <1>9 DEF InOnePlace
  <2>. QED
    BY <1>2, <2>1, <2>2, <2>3, Zenon DEF InOnePlace, OncePerOrder
<1>14. CancelNamesItsOrder'
  BY <1>1, <1>2, <1>8, <1>9, Zenon DEF CancelNamesItsOrder
<1>15. CancelledOnce'
  <2>1. \A x \in trecords' : x.state = "New" => x \in trecords
    BY <1>5, <1>6, Zenon
  <2>. QED
    BY <1>1, <1>2, <1>9, <2>1, Zenon DEF CancelledOnce
<1>16. StatusFindsItsOrder'
  <2>1. \A x \in trecords' : x.order.n \in 1..placed /\ (x.state # "Closing" => Holds(x.order.n, x.order.id))
    <3>1. a.state = "Accepted" => Holds(a.order.n, a.order.id)
      BY Zenon DEF StatusFindsItsOrder
    <3>. QED
      BY <1>5, <1>6, <3>1, Zenon DEF StatusFindsItsOrder
  <2>. QED
    BY <1>1, <1>2, <1>8, <1>9, <2>1, Zenon DEF StatusFindsItsOrder
<1>. QED
  BY <1>10, <1>11, <1>12, <1>13, <1>14, <1>15, <1>16, Zenon

\* The invariant holds before the first order.
LEMMA EngineStarts ==
  ASSUME EngineInit, EngineConstants
  PROVE  EngineInv
<1>1. Elements(up) = {} /\ Elements(down) = {} /\ Elements(toCancel) = {}
  BY DEF EngineInit, Elements
<1>2. \A i \in Nat : \A k \in 1..i : Make(k, 1) \in EngineId(i) /\ Make(k, 1).index = k
  BY MaxGenAssumption DEF Make, EngineId, Gen
<1>3. freeIds \subseteq EngineId(IDS) /\ systemPool \subseteq EngineId(SYSTEM_IDS)
  BY <1>2, Zenon DEF EngineInit, EngineConstants
<1>4. EngineTypeOK
  <2>1. up \in Seq(UpMessage) /\ down \in Seq(DownStatus) /\ toCancel \in Seq(1..IDS) /\ Len(toCancel) <= CANCELS
    BY DEF EngineInit, EngineConstants
  <2>2. torders \in [1..IDS -> [n : 0..placed, id : EngineId(IDS) \cup {InvalidId},
                               sysOId : EngineId(SYSTEM_IDS) \cup EngineId(IDS) \cup {InvalidId}]]
    BY DEF EngineInit, NoOrder
  <2>3. placed \in 0..MAX_PLACED /\ tclosed \subseteq 1..placed /\ cancelled \in [1..MAX_PLACED -> Nat]
    BY DEF EngineInit, EngineConstants
  <2>. QED
    BY <1>3, <2>1, <2>2, <2>3, Zenon DEF EngineInit, EngineTypeOK
<1>5. EngineIdsConserved
  <2>1. \A i \in 1..IDS : torders[i].n = 0
    BY Zenon DEF EngineInit, NoOrder
  <2>2. ASSUME NEW i \in 1..IDS
        PROVE  \E x \in freeIds : {y \in freeIds : y.index = i} = {x}
    <3>1. freeIds = {Make(k, 1) : k \in 1..IDS}
      BY Zenon DEF EngineInit
    <3>2. Make(i, 1) \in freeIds /\ \A y \in freeIds : y.index = i <=> y = Make(i, 1)
      BY <3>1 DEF Make
    <3>. QED
      BY <3>2, Zenon
  <2>. QED
    BY <2>1, <2>2, Zenon DEF EngineIdsConserved
<1>6. SystemIdsConserved
  <2>1. systemPool = {Make(k, 1) : k \in 1..SYSTEM_IDS} /\ trecords = {}
    BY Zenon DEF EngineInit
  <2>2. \A x, y \in systemPool : x.index = y.index => x = y
    BY <2>1 DEF Make
  <2>. QED
    BY <2>1, <2>2, Zenon DEF SystemIdsConserved
<1>7. InOnePlace
  BY <1>1 DEF EngineInit, InOnePlace, OncePerOrder
<1>8. CancelNamesItsOrder /\ StatusFindsItsOrder
  BY <1>1, Zenon DEF EngineInit, CancelNamesItsOrder, StatusFindsItsOrder
<1>9. CancelledOnce
  BY <1>1, Zenon DEF EngineInit, CancelledOnce
<1>. QED
  BY <1>4, <1>5, <1>6, <1>7, <1>8, <1>9, Zenon DEF EngineInv

\* Ids of the client and of the server are conserved, a cancel names the order
\* it is meant for, and every status finds the record of its own order, in
\* every reachable state of the trade engine and the gateway.
THEOREM EngineKeepsItsOrders == EngineSpec => []EngineInv
<1> USE EngineAssumption
<1>1. EngineInit => EngineInv
  BY EngineStarts, Zenon
<1>2. EngineInv /\ [EngineNext]_engineVars => EngineInv'
  <2> SUFFICES ASSUME EngineInv, [EngineNext]_engineVars
               PROVE  EngineInv'
    BY Zenon
  <2>1. CASE tradeStart \/ tradeStop \/ StopEngine \/ LoopEnds \/ NothingToCancel \/ OutOfIds \/ UNCHANGED engineVars
    <3>1. /\ wpc \in {"top", "new", "done"} /\ trading \in BOOLEAN /\ tstop \in BOOLEAN
      BY Zenon DEF EngineInv, EngineTypeOK
    <3>2. /\ wpc' \in {"top", "new", "done"} /\ trading' \in BOOLEAN /\ tstop' \in BOOLEAN
      BY <2>1, <3>1, Zenon DEF tradeStart, tradeStop, StopEngine, LoopEnds, NothingToCancel, OutOfIds, engineVars, client
    <3>3. UNCHANGED <<freeIds, torders, toCancel, stuck, placed, cancelled, tclosed, server, up, down>>
      BY <2>1, Zenon DEF tradeStart, tradeStop, StopEngine, LoopEnds, NothingToCancel, OutOfIds, engineVars, client
    <3>. QED
      BY <3>2, <3>3, NothingMoves, Zenon
  <2>2. CASE HandleStatus
    BY <2>2, IgnoredKeeps, OpensKeeps, ClosesKeeps, Zenon DEF HandleStatus
  <2>. QED
    BY <2>1, <2>2, CancelKeeps, NewKeeps, RejectKeeps, AcceptKeeps, AnswerKeeps, UpdateKeeps, GatewayCancelKeeps, Zenon DEF EngineNext
<1>. QED
  BY <1>1, <1>2, PTL DEF EngineSpec
=============================================================================
