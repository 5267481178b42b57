------------------------------ MODULE MCTstatModel ------------------------------
(* Texts that others send: edits of a field, and odd ones. *)
EXTENDS TstatModel

Words ==
  {Fields[k] : k \in DOMAIN Fields} \union {Modes[k] : k \in DOMAIN Modes} \union {"true", "false"}

\* A key that is empty, and one that is cut off after "relay_".
Keys ==
  {Key(Fields[k]) : k \in {1, 2, 5, 6}}
    \union {String(Words), String(Relays), String({})}

\* The values: a number, both truth values, modes, nothing that is known, an object.
Values ==
  {Number(1), Bool(TRUE), Bool(FALSE), String({COOL}), String({HEAT}), String(Words), Object}

Edits == {<<Object, k, v>> : k \in Keys, v \in Values}

\* A field after an edit: one that fails to load, and one inside an object.
Half == {<<Object, Key("ambient"), Number(1), k, Object>> : k \in Keys}
Nested == {<<Object, String({}), Object, k, Bool(TRUE)>> : k \in Keys}

\* Six fields and one more; no object; a key without a value; no JSON.
Odd ==
  {Dump([Zeroed EXCEPT !.relay_w = TRUE]) \o <<String({}), Number(1)>>,
   <<Number(1)>>, <<Object, Key("ambient")>>, <<>>}

MCMessages == Edits \union Half \union Nested \union Odd
===============================================================================
