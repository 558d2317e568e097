-------------------------- MODULE DomainSerializer --------------------------
(***************************************************************************)
(* The serializers of the network messages, FlatBuffers and SBE            *)
(* (common/src/serialization).  A message is encoded field by field, all   *)
(* or only a first part of it arrives, and what arrived is decoded and     *)
(* posted.  Enumerations have one numbering in the program, where actions  *)
(* are bits, and another on the wire; a text is its length; a ticker is    *)
(* four characters, with 0 behind a shorter name.                          *)
(***************************************************************************)
EXTENDS Naturals, Sequences, SequencesExt

CONSTANTS
  Format,    \* "fbs" or "sbe"
  Numbers,   \* values of ids, tokens, quantities and prices
  Texts,     \* lengths of names, passwords and error texts
  Tickers    \* tickers in use: TICKER_SIZE characters, none behind a 0

VARIABLES
  msg,       \* the message to send
  wire,      \* its encoding, once there is one, as a set
  thrown,    \* serialize threw
  decoded,   \* deserialize returned
  got        \* what it posted

vars == <<msg, wire, thrown, decoded, got>>

OrderAction == [Dummy |-> 0, Buy |-> 1, Sell |-> 2, Modify |-> 4, Cancel |-> 8]
OrderState == [Accepted |-> 0, Rejected |-> 1, Cancelled |-> 2, Partial |-> 3, Full |-> 4]

\* The same names as the schemas number them.
WireAction == [Dummy |-> 0, Buy |-> 1, Sell |-> 2, Modify |-> 3, Cancel |-> 4]
WireState == OrderState

\* Messages and the kinds of their fields.
Schema ==
  [LoginRequest     |-> <<"text", "text">>,
   LoginResponse    |-> <<"number", "flag", "text">>,
   TokenBindRequest |-> <<"number">>,
   Order            |-> <<"number", "ticker", "number", "number", "action">>,
   OrderStatus      |-> <<"number", "number", "number", "number", "state">>,
   TickerPrice      |-> <<"ticker", "number">>]

Values ==
  [text |-> Texts, number |-> Numbers, flag |-> {0, 1}, ticker |-> Tickers,
   action |-> Range(OrderAction), state |-> Range(OrderState)]

TICKER_SIZE == 4

-----------------------------------------------------------------------------
(* convert: a switch over the names it knows; no result where it throws *)

Switch(from, to, known, v) == {to[n] : n \in {k \in known : from[k] = v}}

fbsAction(a) == Switch(OrderAction, WireAction, {"Dummy", "Buy", "Sell", "Modify", "Cancel"}, a)
FaultyFbsActionBack(w) == {w}
fbsActionBack(w) == Switch(WireAction, OrderAction, {"Dummy", "Buy", "Sell", "Modify", "Cancel"}, w)
fbsState(s) == Switch(OrderState, WireState, {"Accepted", "Rejected", "Cancelled", "Partial", "Full"}, s)
fbsStateBack(w) == Switch(WireState, OrderState, {"Accepted", "Rejected", "Cancelled", "Partial", "Full"}, w)

sbeAction(a) == Switch(OrderAction, WireAction, {"Buy", "Sell", "Dummy"}, a)
sbeActionBack(w) == Switch(WireAction, OrderAction, {"Buy", "Sell", "Dummy"}, w)
sbeState(s) == Switch(OrderState, WireState, {"Accepted", "Rejected", "Partial", "Full"}, s)
sbeStateBack(w) == Switch(WireState, OrderState, {"Accepted", "Rejected", "Partial", "Full"}, w)

\* A ticker made of the first four characters of a string, filled up with 0.
makeTicker(str) == [i \in 1..TICKER_SIZE |-> IF i <= Len(str) THEN str[i] ELSE 0]
fbStringToTicker(str) == makeTicker(str)

-----------------------------------------------------------------------------
(* Generated SBE code: fixed fields behind a header with the template id *)

CHAR32 == 32
Header == 8
Width == [text |-> CHAR32, number |-> 4, flag |-> 1, ticker |-> TICKER_SIZE, action |-> 1, state |-> 4]

putChar32(length) == IF length > CHAR32 THEN {} ELSE {length}

\* The characters up to the first 0.
getChar4AsString(t) ==
  SubSeq(t, 1, IF Contains(t, 0) THEN SelectInSeq(t, LAMBDA c : c = 0) - 1 ELSE TICKER_SIZE)

BlockAndHeaderLength(type) ==
  FoldLeft(LAMBDA n, kind : n + Width[kind], Header, Schema[type])

-----------------------------------------------------------------------------
(* One field: the results of encoding and of decoding it, none on a throw *)

FbsPut(kind, v) ==
  CASE kind = "action" -> fbsAction(v) [] kind = "state" -> fbsState(v) [] OTHER -> {v}

FbsGet(kind, w) ==
  CASE kind = "ticker" -> {fbStringToTicker(w)}
    [] kind = "action" -> fbsActionBack(w)
    [] kind = "state" -> fbsStateBack(w)
    [] OTHER -> {w}

SbePut(kind, v) ==
  CASE kind = "text" -> putChar32(v)
    [] kind = "action" -> sbeAction(v) [] kind = "state" -> sbeState(v) [] OTHER -> {v}

SbeGet(kind, w) ==
  CASE kind = "ticker" -> {makeTicker(getChar4AsString(w))}
    [] kind = "action" -> sbeActionBack(w)
    [] kind = "state" -> sbeStateBack(w)
    [] OTHER -> {w}

\* All the fields of one message through Put or Get: one result, or none.
Each(Op(_, _), type, fields) ==
  LET kinds == Schema[type]
  IN  IF \E k \in DOMAIN kinds : Op(kinds[k], fields[k]) = {} THEN {}
      ELSE {[k \in DOMAIN kinds |-> CHOOSE x \in Op(kinds[k], fields[k]) : TRUE]}

-----------------------------------------------------------------------------
(* Whole messages *)

\* The builder's buffer: its size matters only relative to what arrives.
FbsSerialize(m) ==
  {[type |-> m.type, fields |-> f, size |-> 2, arrived |-> 2] : f \in Each(FbsPut, m.type, m.fields)}

\* The verifier refuses a cut buffer, unless only padding is missing.
Verified(w) == IF w.arrived < w.size THEN BOOLEAN ELSE {TRUE}

FbsDeserialize(w, ok) ==
  IF ~ok THEN {}
  ELSE {[type |-> w.type, fields |-> f] : f \in Each(FbsGet, w.type, w.fields)}

SbeSerialize(m) ==
  LET size == BlockAndHeaderLength(m.type)
  IN  {[type |-> m.type, fields |-> f, size |-> size, arrived |-> size] : f \in Each(SbePut, m.type, m.fields)}

SbeDeserialize(w) ==
  IF w.arrived < Header \/ w.arrived < BlockAndHeaderLength(w.type) THEN {}
  ELSE {[type |-> w.type, fields |-> f] : f \in Each(SbeGet, w.type, w.fields)}

\* The values a message's fields may have, position by position.
RECURSIVE FieldsOf(_)
FieldsOf(kinds) ==
  IF kinds = <<>> THEN {<<>>}
  ELSE {<<v>> \o rest : v \in Values[Head(kinds)], rest \in FieldsOf(Tail(kinds))}

Init ==
  /\ \E type \in DOMAIN Schema : \E fields \in FieldsOf(Schema[type]) : msg = [type |-> type, fields |-> fields]
  /\ wire = {} /\ thrown = FALSE /\ decoded = FALSE /\ got = {}

serialize ==
  /\ wire = {} /\ ~thrown
  /\ wire' = IF Format = "fbs" THEN FbsSerialize(msg) ELSE SbeSerialize(msg)
  /\ thrown' = (wire' = {})
  /\ UNCHANGED <<msg, decoded, got>>

\* Only a first part of the message is there when it is decoded.
Cut ==
  /\ ~decoded
  /\ \E w \in wire :
       /\ w.arrived = w.size
       /\ \E n \in 0..(w.size - 1) : wire' = {[w EXCEPT !.arrived = n]}
  /\ UNCHANGED <<msg, thrown, decoded, got>>

deserialize ==
  /\ ~decoded /\ decoded' = TRUE
  /\ \E w \in wire :
       \/ Format = "fbs" /\ \E ok \in Verified(w) : got' = FbsDeserialize(w, ok)
       \/ Format = "sbe" /\ got' = SbeDeserialize(w)
  /\ UNCHANGED <<msg, wire, thrown>>

Next == serialize \/ Cut \/ deserialize
Spec == Init /\ [][Next]_vars

-----------------------------------------------------------------------------
\* Every value is one of its kind.
TypeOK ==
  /\ \A m \in {msg} \cup got : \A k \in DOMAIN Schema[m.type] : m.fields[k] \in Values[Schema[m.type][k]]
  /\ thrown \in BOOLEAN /\ decoded \in BOOLEAN /\ (thrown => wire = {})

\* What deserialize posts is the message that was serialized, every field of
\* it, also when only a part of the bytes arrived: a partial message posts
\* nothing or what it would have posted whole, never a mixture.
PostedAsSent == got \subseteq {msg}

\* A message that was serialized and arrived whole is posted: no value that
\* one side can write is refused by the other.
WholeIsPosted == decoded /\ (\A w \in wire : w.arrived = w.size) => got = {msg}

\* serialize refuses only texts that do not fit their field: every order
\* action and every order state of the schema can be sent.
SchemaValuesAreSent ==
  thrown => \E k \in DOMAIN msg.fields : Schema[msg.type][k] = "text" /\ msg.fields[k] > CHAR32

\* Safety of the round trip: what is posted was sent, what was sent and arrives
\* is posted, and FlatBuffers sends all its schema has.
Inv == TypeOK /\ PostedAsSent /\ WholeIsPosted /\ (Format = "fbs" => SchemaValuesAreSent)
=============================================================================
