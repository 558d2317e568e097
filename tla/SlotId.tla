------------------------------- MODULE SlotId -------------------------------
(***************************************************************************)
(* SlotId<Capacity> (common/src/id/slot_id.hpp): an array index and a      *)
(* generation packed in 32 bits.  The packing is abstracted to a record;   *)
(* what the code computes on it is kept: generation 0 is the invalid id,   *)
(* and nextGen wraps from the largest generation back to 1.                *)
(***************************************************************************)
EXTENDS Integers

CONSTANT MaxGen     \* SlotId::maxGen(), the largest generation

ASSUME MaxGenAssumption == MaxGen \in Nat \ {0}

Gen == 1 .. MaxGen

\* SlotId::make
Make(i, g) == [index |-> i, gen |-> g]

\* The default-constructed id, false in a Boolean context.
InvalidId == Make(0, 0)

\* SlotId::isValid
IsValid(id) == id.gen # 0

\* SlotId::nextGen: (gen + 1) & GEN_MASK, with 0 replaced by 1.
NextGen(id) == Make(id.index, IF id.gen = MaxGen THEN 1 ELSE id.gen + 1)
=============================================================================
