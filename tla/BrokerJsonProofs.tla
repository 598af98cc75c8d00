--------------------------- MODULE BrokerJsonProofs ---------------------------
(* Theorems about BrokerJson: for every table of fields, what is written of a *)
(* struct that was read is read as that struct again.                         *)
EXTENDS BrokerJson, TLAPS

Injective(enum) ==
    \A a, b \in DOMAIN Mappings[enum] : WordOf(enum, a) = WordOf(enum, b) => a = b

(* No word stands for two enumerators: the tables of enum_serialization.hpp.  *)
LEMMA SameWordsInjective ==
    ASSUME NEW enum, NEW words, Mappings[enum] = SameWords(words)
    PROVE  Injective(enum)
  BY DEF Injective, WordOf, SameWords

LEMMA WordsDiffer == \A enum \in Enums : Injective(enum)
  <1>1. Injective("account_status")
    BY SameWordsInjective DEF Mappings
  <1>2. Injective("asset_exchange")
    <2> DEFINE words == {"AMEX", "ARCA", "BATS", "NYSE", "NASDAQ", "NYSEARCA", "OTC", "FTXU", "CBSE",
                         "GNSS", "ERSX", "CRYPTO", "EMPTY"}
    <2>1. Mappings["asset_exchange"] = [w \in words |-> IF w = "EMPTY" THEN "" ELSE w]
      BY DEF Mappings
    <2>2. "" \notin words
      OBVIOUS
    <2> HIDE DEF words
    <2>3. DOMAIN Mappings["asset_exchange"] = words
      BY <2>1
    <2>4. \A a \in words : WordOf("asset_exchange", a) = IF a = "EMPTY" THEN "" ELSE a
      BY <2>1 DEF WordOf
    <2> QED
      BY <2>2, <2>3, <2>4 DEF Injective
  <1>3. Injective("asset_class") /\ Injective("position_side") /\ Injective("order_side")
    BY DEF Mappings, Injective, WordOf
  <1>4. Injective("order_class") /\ Injective("order_type")
    BY DEF Mappings, Injective, WordOf
  <1>5. Injective("time_in_force") /\ Injective("position_intent")
    BY DEF Mappings, Injective, WordOf
  <1>6. Injective("order_status")
    BY DEF Mappings, Injective, WordOf
  <1>7. Enums = {"account_status", "asset_exchange", "asset_class", "position_side", "order_side",
                 "order_class", "order_type", "time_in_force", "order_status",
                 "position_intent"}
    BY DEF Enums, Mappings
  <1> QED
    BY <1>1, <1>2, <1>3, <1>4, <1>5, <1>6, <1>7

LEMMA NoWordIsEmpty == \A e \in DOMAIN Mappings["order_class"] : WordOf("order_class", e) # ""
  <1>1. \A e \in DOMAIN Mappings["order_class"] :
            WordOf("order_class", e) \in {"simple", "bracket", "oco", "oto", "mleg"}
    BY DEF Mappings, WordOf
  <1> QED
    BY <1>1

(* The word of an enumerator that was read stands for that enumerator. *)
LEMMA WordReadBack ==
    ASSUME NEW enum \in Enums, NEW w, IsWord(enum, w)
    PROVE  LET e == EnumeratorOf(enum, w)
           IN  IsWord(enum, WordOf(enum, e)) /\ EnumeratorOf(enum, WordOf(enum, e)) = e
  <1> DEFINE e == EnumeratorOf(enum, w)
  <1>1. Injective(enum)
    BY WordsDiffer
  <1>2. e \in DOMAIN Mappings[enum]
    <2>1. CASE enum = "order_class" /\ w = ""
      BY <2>1 DEF EnumeratorOf, Mappings
    <2>2. CASE ~(enum = "order_class" /\ w = "")
      BY <2>2 DEF EnumeratorOf, IsWord
    <2> QED
      BY <2>1, <2>2
  <1>3. IsWord(enum, WordOf(enum, e))
    BY <1>2 DEF IsWord
  <1>4. enum = "order_class" => WordOf(enum, e) # ""
    BY <1>2, NoWordIsEmpty
  <1>5. EnumeratorOf(enum, WordOf(enum, e))
          = CHOOSE f \in DOMAIN Mappings[enum] : WordOf(enum, f) = WordOf(enum, e)
    BY <1>4 DEF EnumeratorOf
  <1>6. EnumeratorOf(enum, WordOf(enum, e)) \in DOMAIN Mappings[enum]
        /\ WordOf(enum, EnumeratorOf(enum, WordOf(enum, e))) = WordOf(enum, e)
    BY <1>2, <1>5
  <1> QED
    BY <1>1, <1>2, <1>3, <1>6 DEF Injective

-----------------------------------------------------------------------------
(* A table reads no field as null. *)
NoNulls(table) == \A k \in DOMAIN table : table[k].kind # "null"

(* For any table: an object that can be read is, written again and read again, *)
(* the struct it was read as; null, absent and "" included.                   *)
THEOREM RoundTrip ==
    ASSUME NEW table, NEW obj, NoNulls(table), Readable(table, obj)
    PROVE  LET struct == Decode(table, obj)
               json   == Encode(table, struct)
           IN  Readable(table, json) /\ Decode(table, json) = struct
  <1> DEFINE S == {k \in DOMAIN table : Kept(table, k, obj)}
  <1> DEFINE struct == Decode(table, obj)
  <1> DEFINE json == Encode(table, struct)
  <1>1. DOMAIN struct = S
    BY DEF Decode
  <1>2. DOMAIN json = S
    BY <1>1 DEF Encode
  <1>3. ASSUME NEW k \in S
        PROVE  /\ json[k].is # "null" /\ Fits(table[k].kind, json[k])
               /\ (IF table[k].kind \in Enums THEN EnumeratorOf(table[k].kind, json[k].val)
                   ELSE json[k].val) = struct[k]
    <2>1. k \in DOMAIN table /\ Fits(table[k].kind, obj[k]) /\ table[k].kind # "null"
      BY DEF Readable, NoNulls
    <2>2. CASE table[k].kind \in Enums
      <3>1. struct[k] = EnumeratorOf(table[k].kind, obj[k].val)
        BY <2>2 DEF Decode
      <3>2. json[k] = Json("text", WordOf(table[k].kind, struct[k]))
        BY <1>1, <2>1, <2>2 DEF Encode
      <3>3. json[k].is = "text" /\ json[k].val = WordOf(table[k].kind, struct[k])
        BY <3>2 DEF Json
      <3>4. IsWord(table[k].kind, obj[k].val)
        BY <2>1, <2>2 DEF Fits
      <3>5. /\ IsWord(table[k].kind, WordOf(table[k].kind, struct[k]))
            /\ EnumeratorOf(table[k].kind, WordOf(table[k].kind, struct[k])) = struct[k]
        BY <2>2, <3>1, <3>4, WordReadBack
      <3> QED
        BY <2>2, <3>3, <3>5 DEF Fits
    <2>3. CASE table[k].kind \notin Enums
      <3>1. json[k] = Json(table[k].kind, struct[k])
        BY <1>1, <2>1, <2>3 DEF Encode
      <3>2. json[k].is = table[k].kind /\ json[k].val = struct[k]
        BY <3>1 DEF Json
      <3> QED
        BY <2>1, <2>3, <3>2 DEF Fits
    <2> QED
      BY <2>2, <2>3
  <1> HIDE DEF struct, json
  <1>4. \A k \in DOMAIN table : Kept(table, k, json) <=> k \in S
    BY <1>2, <1>3 DEF Kept
  <1>5. \A k \in DOMAIN table : k \notin S => table[k].need # "required"
    BY DEF Readable
  <1>6. Readable(table, json)
    BY <1>3, <1>4, <1>5 DEF Readable
  <1>7. Decode(table, json) = [k \in S |-> struct[k]]
    <2>1. {k \in DOMAIN table : Kept(table, k, json)} = S
      BY <1>4
    <2> QED
      BY <1>3, <2>1 DEF Decode
  <1>8. struct = [k \in S |-> struct[k]]
    BY <1>1 DEF struct, Decode
  <1> QED
    BY <1>6, <1>7, <1>8 DEF struct, json

LEMMA NoNullFields == ASSUME NEW need, NEW kind, NEW keys, kind # "null"
                      PROVE  NoNulls(Fields(need, kind, keys))
  BY DEF NoNulls, Fields

LEMMA NoNullTables == ASSUME NEW f, NEW g, NoNulls(f), NoNulls(g) PROVE NoNulls(f ++ g)
  BY DEF NoNulls, ++

(* No conversion of the client reads a field as null. *)
LEMMA TablesReadNoNulls == NoNulls(AccountReads) /\ NoNulls(PositionReads) /\ NoNulls(OrderReads)
  <1>1. NoNulls([k \in {"asset_class", "order_class", "order_type", "time_in_force"} |->
                    [kind |-> k, need |-> "required"]])
    BY DEF NoNulls
  <1> QED
    BY <1>1, NoNullFields, NoNullTables DEF AccountReads, PositionReads, OrderReads

-----------------------------------------------------------------------------
(* A field that must be there and is read as it is. *)
Plain(table, k) ==
    k \in DOMAIN table /\ table[k].need = "required" /\ table[k].kind \notin Enums

LEMMA PlainRead ==
    ASSUME NEW table, NEW obj, NEW k, Plain(table, k), Readable(table, obj)
    PROVE  k \in DOMAIN obj /\ Decode(table, obj)[k] = obj[k].val
  <1>1. k \in DOMAIN table /\ Kept(table, k, obj)
    BY DEF Plain, Readable
  <1> QED
    BY <1>1 DEF Plain, Kept, Decode

LEMMA PlainFirst == ASSUME NEW f, NEW g, NEW k, Plain(f, k) PROVE Plain(f ++ g, k)
  BY DEF Plain, ++

LEMMA PlainFields ==
    ASSUME NEW keys, NEW k \in keys, NEW kind \in {"text", "int"}
    PROVE  Plain(Fields("required", kind, keys), k)
  <1>1. kind \notin Enums
    BY DEF Enums, Mappings
  <1> QED
    BY <1>1 DEF Plain, Fields

LEMMA PlainTexts ==
    /\ Plain(OrderReads, "id") /\ Plain(OrderReads, "symbol")
    /\ Plain(OrderReads, "client_order_id")
    /\ Plain(PositionReads, "symbol")
    /\ Plain(PositionClosedReads, "symbol")
    /\ Plain(OrderDeletedReads, "id")
  BY PlainFields, PlainFirst
     DEF OrderReads, PositionReads, PositionClosedReads, OrderDeletedReads

LEMMA PlainStatus == Plain(OrderDeletedReads, "status")
  <1>1. Plain(Fields("required", "int", {"status"}), "status")
    BY PlainFields
  <1> QED
    BY <1>1 DEF OrderDeletedReads, Plain, Fields, ++

(* What the request for an order says of its symbol and its name. *)
LEMMA NotionalTexts ==
    ASSUME NEW no, DOMAIN no = DOMAIN NotionalReads
    PROVE  LET body == EncodeNotional(no)
           IN  /\ body["symbol"].val = no["symbol"]
               /\ "client_order_id" \in DOMAIN body <=> no["client_order_id"] # ""
               /\ no["client_order_id"] # "" => body["client_order_id"].val = no["client_order_id"]
  <1> DEFINE read == Encode(NotionalReads, no)
             fixed == [k \in {"type", "time_in_force"} |->
                          Json("text", IF k = "type" THEN "market" ELSE "day")]
             keys == {k \in DOMAIN read : k = "client_order_id" => no[k] # ""}
  <1>1. \A k \in {"symbol", "client_order_id"} :
           k \in DOMAIN NotionalReads /\ NotionalReads[k].kind = "text"
    BY DEF NotionalReads, Fields, ++
  <1>2. "text" \notin Enums
    BY DEF Enums, Mappings
  <1>3. \A k \in {"symbol", "client_order_id"} : k \in DOMAIN read /\ read[k] = Json("text", no[k])
    BY <1>1, <1>2 DEF Encode
  <1> HIDE DEF read
  <1>4. EncodeNotional(no) =
           [k \in DOMAIN fixed \cup keys |-> IF k \in DOMAIN fixed THEN fixed[k] ELSE read[k]]
    BY DEF EncodeNotional, read
  <1>5. DOMAIN fixed = {"type", "time_in_force"}
    OBVIOUS
  <1> HIDE DEF fixed
  <1>6. \A x : Json("text", x).val = x
    BY DEF Json
  <1> QED
    BY <1>3, <1>4, <1>5, <1>6
=============================================================================
