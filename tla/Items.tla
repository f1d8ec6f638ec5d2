------------------------------- MODULE Items -------------------------------
(***************************************************************************)
(* Data items of the encoding (CBOR) that messages and record containers   *)
(* are made of, as the programs use deeppack's emit_*, parse_* and         *)
(* skip_item.  An item is a head of a few bytes, which holds its type and  *)
(* a number, and for texts and byte strings a body; the items of an array  *)
(* or a map follow it.                                                     *)
(***************************************************************************)
EXTENDS Naturals, Sequences, SequencesExt

\* FoldLeft of SequencesExt as a recursive function, which is linear in the length.
Fold(op(_, _), base, s) ==
    LET f[k \in 0 .. Len(s)] == IF k = 0 THEN base ELSE op(f[k - 1], s[k])
    IN f[Len(s)]

\* The elements of a finite set in an order, each as far back as it has others before it.
InOrder(S, Less(_, _)) ==
    [k \in 1 .. Cardinality(S) |-> CHOOSE x \in S : Cardinality({y \in S : Less(y, x)}) = k - 1]

Item(type, value, head, body) == [type |-> type, value |-> value, head |-> head, body |-> body]

\* Bytes of a head with the number n (and of var_uint_encoded_size).
HeadSize(n) == IF n < 24 THEN 1 ELSE IF n < 256 THEN 2 ELSE IF n < 65536 THEN 3 ELSE 5

Uint(n) == Item("uint", n, HeadSize(n), 0)
Wide(n) == Item("uint", n, 9, 0)  \* a number that takes 64 bits
Text(what, n) == Item("text", what, HeadSize(n), n)
Binary(n) == Item("binary", 0, HeadSize(n), n)
Array(n) == Item("array", n, HeadSize(n), 0)
Map(n) == Item("map", n, HeadSize(n), 0)
Null == Item("null", 0, 1, 0)
Break == Item("break", 0, 1, 0)
Cut(n) == Item("cut", 0, n, 0)    \* n bytes that begin with the head of a longer text

Size(item) == item.head + item.body
TextSize(n) == HeadSize(n) + n
Bytes(items) == Fold(LAMBDA n, item : n + Size(item), 0, items)
Times(n, x) == [k \in 1 .. n |-> x]

\* What an output buffer of `room` bytes, all null before, holds after `items` are
\* emitted up to the first that does not fit.
Emitted(items, room) ==
    LET n == Max({k \in 0 .. Len(items) : Bytes(SubSeq(items, 1, k)) <= room})
        left == room - Bytes(SubSeq(items, 1, n))
        cut == n < Len(items) /\ items[n + 1].body > 0 /\ items[n + 1].head <= left
    IN SubSeq(items, 1, n) \o IF cut THEN <<Cut(left)>> ELSE Times(left, Null)

-----------------------------------------------------------------------------
(* Parsing.  Follow(want, item) are the things wanted in place of `want`    *)
(* once `item` was read for it, or Refused.                                 *)

Refused == <<"refused">>

\* skip_item() for one item; an array or map makes it skip more.
Skip(item) ==
    CASE item.type = "array" -> Times(item.value, "any")
      [] item.type = "map" -> Times(2 * item.value, "any")
      [] item.type = "cut" -> Refused
      [] OTHER -> <<>>

\* Reading `items` while things are wanted: what is still wanted in the end, and how
\* many items were read.
Parse(Follow(_, _), wanted, items) ==
    Fold(LAMBDA s, item :
               IF s.todo \in {<<>>, Refused} THEN s
               ELSE LET next == Follow(Head(s.todo), item)
                    IN IF next = Refused THEN [s EXCEPT !.todo = Refused]
                       ELSE [todo |-> next \o Tail(s.todo), used |-> s.used + 1],
             [todo |-> wanted, used |-> 0], items)

Parsed(s) == s.todo = <<>>
=============================================================================
