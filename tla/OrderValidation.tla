--------------------------- MODULE OrderValidation ---------------------------
(* Which orders the service accepts and which the tables take: the rules of  *)
(* domain/entities.go and validator.go, applied before an order is saved,    *)
(* against the columns of migrations/01_init_tables.sql.  The two were       *)
(* written apart; an order that passes the first and fails the second costs  *)
(* the consumer all its retries and is then skipped (OrderConsumer).         *)
(*                                                                           *)
(* A text is the class of texts the rules and the columns tell apart, a      *)
(* number an integer of Go's width.  Fields with the same rule and column    *)
(* behave alike and are modelled once; lengths are left out, since no rule   *)
(* allows more than its column.                                              *)
EXTENDS Integers

CONSTANTS
  GoMax,    \* the largest int (64 bits)
  IntMax    \* the largest INTEGER column (32 bits)

ASSUME WidthAssumption ==
  GoMax \in Nat /\ IntMax \in Nat \ {0} /\ IntMax <= GoMax

VARIABLES
  text,     \* text[f]: the class of a text field
  num,      \* num[f]: a number
  verdict,  \* Order.Validate: "new", "accepted" or "rejected"
  row       \* Store.SaveOrder: "none", "stored" or "refused"

vars == <<text, num, verdict, row>>

Ints == - GoMax - 1 .. GoMax

(* Texts the validator accepts: regular expressions, alpha, email, oneof, or *)
(* a length only.  "other" is every accepted text that the CHECK of its      *)
(* column does not match: foreign letters, a hyphen or a digit in a name or  *)
(* city, an e-mail such as o'brien@... or with "+", a rid that is no uid, a  *)
(* brand with punctuation.  An "absent" transaction is the uid of no order,  *)
(* a "stored" one that of this order or of one in the table; "free" fields   *)
(* have a rule of length only and no CHECK: track_number (of the order and   *)
(* of items), internal_signature, address, region, request_id, an item's     *)
(* name and size.  What JSON writes as \u0000 is a character to the rules.   *)
Accepted == [
  order_uid        |-> {"hex20"},
  transaction      |-> {"stored", "absent"},
  delivery_service |-> {"letters"},       \* and all others of letters, digits
  phone            |-> {"matching"},      \* and zip
  currency         |-> {"listed", "unlisted"},
  person           |-> {"letters", "other"},     \* name and city
  email            |-> {"matching", "other"},
  rid              |-> {"hex20", "other"},
  brand            |-> {"letters", "other"},
  free             |-> {"text", "NUL"},
  status           |-> {"listed", "unlisted"} ]         \* of 100 .. 600

(* Texts the columns take: CHECK, REFERENCES to the lookup tables, into      *)
(* which SaveOrder inserts brands and services but no currency or status,    *)
(* and what PostgreSQL stores in a text, which is any character but NUL.     *)
Storable == [
  order_uid        |-> {"hex20"},
  transaction      |-> {"stored"},
  delivery_service |-> {"letters"},
  phone            |-> {"matching"},
  currency         |-> {"listed"},
  person           |-> {"letters"},
  email            |-> {"matching"},
  rid              |-> {"hex20"},
  brand            |-> {"letters"},
  free             |-> {"text"},
  status           |-> {"listed"} ]

Texts == DOMAIN Accepted

(* Numbers tagged min=0, and those tagged required, which refuses 0 (some of *)
(* them are tagged min=1 as well).  payment_dt stands for chrt_id and nm_id.  *)
Numbers == {"sm_id", "amount", "payment_dt", "delivery_cost", "goods_total",
            "custom_fee", "price", "total_price"}
(* Seeded bug: payment_dt is only tagged min=0. *)
RequiredOthers == {"sm_id", "amount", "price"}
Required == {"sm_id", "amount", "payment_dt", "price"}

(* Columns with CHECK (... > 0), and the one of 64 bits. *)
Positive == {"payment_dt", "price"}
Wide == {"payment_dt"}

(* A sum of two ints, with the machine's wrap-around. *)
Wrap(n) ==
  IF n > GoMax THEN n - 2 * (GoMax + 1)
  ELSE IF n < - GoMax - 1 THEN n + 2 * (GoMax + 1) ELSE n

TypeOK ==
  /\ DOMAIN text = Texts /\ num \in [Numbers -> Ints]
  /\ verdict \in {"new", "accepted", "rejected"}
  /\ row \in {"none", "stored", "refused"}
  /\ row # "none" => verdict = "accepted"

(* An order like the producer's, with any of its texts of a class that only  *)
(* the rules accept and at most one that they do not (or a uid, with the     *)
(* transaction that repeats it), or a few numbers altered.                   *)
Good(f) == CHOOSE v \in Storable[f] : TRUE
Odd(f) == CHOOSE v \in Accepted[f] :
            v \notin Storable[f] \/ Accepted[f] \subseteq Storable[f]
Small == [sm_id |-> 1, amount |-> 1, payment_dt |-> 1, delivery_cost |-> 1,
          goods_total |-> 0, custom_fee |-> 0, price |-> 1, total_price |-> 0]

Malformed == {{}, {"order_uid", "transaction"}} \cup {{f} : f \in Texts}

Init ==
  /\ \/ /\ \E F \in SUBSET Texts, M \in Malformed :
             text = [f \in Texts |-> IF f \in M THEN "malformed"
                                    ELSE IF f \in F THEN Odd(f) ELSE Good(f)]
        /\ num = Small
     \/ /\ text = [f \in Texts |-> Good(f)]
        /\ \/ \E a, d, g \in Ints :
                num = [Small EXCEPT !.amount = a, !.delivery_cost = d,
                                    !.goods_total = g]
           \/ \E f, g \in Numbers, m, n \in Ints :
                num = [Small EXCEPT ![f] = m, ![g] = n]
  /\ verdict = "new" /\ row = "none"

---------------------------------------------------------------------------

(* Order.Validate: the equation of the amounts in Go's arithmetic. *)
AmountRule == num["amount"] = Wrap(num["delivery_cost"] + num["goods_total"])

(* Seeded bug: amount may be negative. *)
NumberRuleNoMin(f) ==
  (f \in Required => num[f] # 0) /\ (num[f] >= 0 \/ f = "amount")

(* The tags required and min. *)
NumberRule(f) == (f \in Required => num[f] # 0) /\ num[f] >= 0

TextRule(f) == text[f] \in Accepted[f]

Validate ==
  /\ verdict = "new"
  /\ verdict' = IF /\ AmountRule
                   /\ \A f \in Numbers : NumberRule(f)
                   /\ \A f \in Texts : TextRule(f)
                THEN "accepted" ELSE "rejected"
  /\ UNCHANGED <<text, num, row>>

(* CHECK (x >= 0) or (x > 0), and the width of the column. *)
Column(f) ==
  /\ num[f] >= IF f \in Positive THEN 1 ELSE 0
  /\ num[f] <= IF f \in Wide THEN GoMax ELSE IntMax

(* SaveOrder's inserts: one refused statement refuses the order. *)
Insert ==
  /\ verdict = "accepted" /\ row = "none"
  /\ row' = IF /\ \A f \in Numbers : Column(f)
               /\ \A f \in Texts : text[f] \in Storable[f]
            THEN "stored" ELSE "refused"
  /\ UNCHANGED <<text, num, verdict>>

Over == (verdict = "rejected" \/ row # "none") /\ UNCHANGED vars

Next == Validate \/ Insert \/ Over

Spec == Init /\ [][Next]_vars

---------------------------------------------------------------------------
(* Properties.                                                               *)

(* The amount of an accepted order is the sum of its parts as integers, not  *)
(* only modulo 2^64 (validator.go:53 adds before the signs are checked).     *)
AmountExact ==
  verdict = "accepted" =>
    num["amount"] = num["delivery_cost"] + num["goods_total"]

(* The texts between the rules and the tables. *)
GapTexts ==
  {<<"transaction", "absent">>, <<"currency", "unlisted">>,
   <<"status", "unlisted">>, <<"person", "other">>, <<"email", "other">>,
   <<"rid", "other">>, <<"brand", "other">>, <<"free", "NUL">>}

(* The whole gap between the rules and the tables: an accepted order is      *)
(* refused by the tables only for a number that needs more than 32 bits, for *)
(* a currency or status that is not listed, for a payment of no stored       *)
(* order, for a name, city, e-mail, rid or brand that its CHECK does not     *)
(* match, or for a NUL in a field without CHECK.                             *)
GapKnown ==
  row = "refused" =>
    \/ \E f \in Numbers \ Wide : num[f] > IntMax
    \/ \E f \in Texts : <<f, text[f]>> \in GapTexts

(* Said but not so: an amount or sm_id of 0 is legal (min=0, entities.go:39  *)
(* and 19; >= 0, 01_init_tables.sql:60 and 38), so that an order is not      *)
(* rejected for it alone.                                                    *)
ZeroAccepted ==
  verdict = "rejected" =>
    ~ /\ \A f \in Texts : TextRule(f)
      /\ AmountRule
      /\ \A f \in Numbers :
           num[f] >= IF f \in Required \ {"amount", "sm_id"} THEN 1 ELSE 0

(* Said but not so: order_example.txt, whose uid and transaction are         *)
(* b563feb7b2b84b6test and whose rid is no uid, is an order the service      *)
(* accepts.                                                                  *)
ExampleAccepted ==
  verdict = "rejected" =>
    ~ /\ num = Small
      /\ \A f \in Texts :
           text[f] = IF f \in {"order_uid", "transaction"} THEN "malformed"
                     ELSE IF f = "rid" THEN "other" ELSE Good(f)
=============================================================================
